---------------------------- MODULE Spec2Model ----------------------------
(***************************************************************************)
(* Row views on dense matrices (blaze/math/views/DenseRow.h).              *)
(*                                                                         *)
(* Two matrices are kept side by side: A is stored in row-major order and  *)
(* is viewed through the primary template DenseRow<MT,true>; B is stored   *)
(* in column-major order and is viewed through the specialization          *)
(* DenseRow<MT,false>.  Both start with the same logical values and every  *)
(* statement is executed on both, once through each view class.            *)
(* Definitions prefixed R_ model members of the primary template, those    *)
(* prefixed C_ members of the column-major specialization.                 *)
(* The element type is an exact integer type.                              *)
(* th holds the statements that are executed one memory access at a time:  *)
(* the position of each and what it has read so far.                       *)
(*                                                                         *)
(* Specifications:                                                         *)
(*   Spec        one statement on a row view of A and of B                 *)
(*   KernelSpec  the scalar and the vectorized kernels on a padded matrix  *)
(*   StepSpec    an operator of the row-major view, one access at a time   *)
(*   RaceSpec    two threads add-assigning to the same row of A            *)
(*   IterSpec    the iterator of the column-major view over a row          *)
(*   BlockSpec   the end of the block loop of the vectorized kernels       *)
(*   LoopSpec    the loops of both views, one iteration at a time          *)
(***************************************************************************)
EXTENDS Integers, Sequences, FiniteSets, TLC

VARIABLES A, B, pre, last, pc, th

vars == <<A, B, pre, last, pc, th>>

\* Largest number of rows of a matrix.
MaxRows == 2
\* Largest number of columns of a matrix.
MaxCols == 3
\* Largest element value, scalar or seed drawn as an input.
MaxVal == 2

-----------------------------------------------------------------------------
(***************************************************************************)
(* The dense matrix consumed by the view: rows(), columns(), element       *)
(* access by (row,column) and the per-row reset.  A matrix is a record     *)
(* with its storage order so, its shape, and its elements v in one flat    *)
(* array addressed according to the storage order.  spacing is the         *)
(* distance in the array between two rows (row-major) or two columns       *)
(* (column-major).  A matrix of a vectorizable type pads every row with    *)
(* zero elements up to a multiple of the number of elements of an          *)
(* intrinsic vector.                                                       *)
(***************************************************************************)
\* IT::size, the number of elements of an intrinsic vector
IT_size == 2

\* cacheSize and sizeof(ElementType), scaled to the sizes of the model
CacheSize == 192
SizeofElement == 8

Addr(m, r, c) == IF m.so THEN r * m.spacing + c ELSE c * m.spacing + r

Get(m, r, c) == m.v[Addr(m, r, c)]

Set(m, r, c, x) == [m EXCEPT !.v[Addr(m, r, c)] = x]

\* matrix_.reset( row ): every element of the row becomes the default value
MatrixResetRow(m, r) ==
    [m EXCEPT !.v = [a \in DOMAIN m.v |->
        IF \E c \in 0 .. m.columns - 1 : a = Addr(m, r, c) THEN 0 ELSE m.v[a]]]

\* matrix_.nonZeros( row ): the number of non-default elements of the row
MatrixNonZeros(m, r) == Cardinality({c \in 0 .. m.columns - 1 : Get(m, r, c) # 0})

\* A matrix of the given storage order holding the logical values f[r][c]
MakeMatrix(so, nr, nc, f) ==
    LET m0 == [so |-> so, rows |-> nr, columns |-> nc, v |-> <<>>,
               spacing |-> IF so THEN nc ELSE nr, vectorizable |-> FALSE]
    IN  [m0 EXCEPT !.v = [a \in 0 .. nr * nc - 1 |->
            LET rc == CHOOSE p \in (0 .. nr - 1) \X (0 .. nc - 1) :
                          Addr(m0, p[1], p[2]) = a
            IN  f[rc[1]][rc[2]]]]

\* the smallest multiple of IT::size that is not below n
Padded(n) == ((n + IT_size - 1) \div IT_size) * IT_size

\* A row-major matrix of a vectorizable type holding the logical values
\* f[r][c], its rows padded with zeros
MakePadded(nr, nc, f) ==
    [so |-> TRUE, rows |-> nr, columns |-> nc,
     spacing |-> Padded(nc), vectorizable |-> TRUE,
     v |-> [a \in 0 .. nr * Padded(nc) - 1 |->
              IF a % Padded(nc) < nc THEN f[a \div Padded(nc)][a % Padded(nc)] ELSE 0]]

\* The logical values of a matrix, independent of its storage order
Logical(m) == [r \in 0 .. m.rows - 1 |-> [c \in 0 .. m.columns - 1 |-> Get(m, r, c)]]

RowsOf(m) == 0 .. m.rows - 1
ColsOf(m) == 0 .. m.columns - 1


-----------------------------------------------------------------------------
(***************************************************************************)
(* Right-hand sides.  A right-hand side is a dense vector, a sparse        *)
(* vector, or an element-wise expression that reads rows of the matrix the *)
(* assigned view refers to:                                                *)
(*   dvec     dense vector val[0..size-1]                                  *)
(*   svec     sparse vector with the elements (j, val[j]), j in idx        *)
(*   rowscale row(M,k) * s            (dense expression)                   *)
(*   rowsum   row(M,k) + row(M,k2)    (dense expression)                   *)
(*   svecrow  sv * row(M,k), sv a sparse vector (sparse expression)        *)
(*   pvec     dense vector of a vectorizable type, padded with zeros        *)
(*   rowdiv   row(M,k) / s            (dense expression)                   *)
(*   row      row(M,k), a view of the matrix of the assigned view           *)
(*   xrow     a view of a row of another matrix of the same type, val the   *)
(*            elements of that row                                          *)
(* An expression is evaluated lazily: each element access reads the        *)
(* matrix as it is at the time of the access.                              *)
(***************************************************************************)
DVec(n, f) == [kind |-> "dvec", size |-> n, val |-> [j \in 0 .. n - 1 |-> f[j]]]

PVec(n, f) == [kind |-> "pvec", size |-> n, val |-> [j \in 0 .. n - 1 |-> f[j]]]

SVec(n, S, f) == [kind |-> "svec", size |-> n, idx |-> S, val |-> [j \in S |-> f[j]]]

RowScale(k, s) == [kind |-> "rowscale", k |-> k, s |-> s]

RowSum(k, k2) == [kind |-> "rowsum", k |-> k, k2 |-> k2]

RowDiv(k, s) == [kind |-> "rowdiv", k |-> k, s |-> s]

\* this: the view is the assigned view itself
RowView(k, this) == [kind |-> "row", k |-> k, this |-> this]

XRow(n, f) == [kind |-> "xrow", size |-> n, val |-> [j \in 0 .. n - 1 |-> f[j]]]

SVecRow(S, f, k) == [kind |-> "svecrow", idx |-> S, val |-> [j \in S |-> f[j]], k |-> k]

IsSparseVector(e) == e.kind \in {"svec", "svecrow"}

\* (~rhs).size()
VecSize(e, m) ==
    IF e.kind \in {"dvec", "svec", "pvec", "xrow"} THEN e.size ELSE m.columns

\* (~rhs).canAlias( &matrix_ ): the expression reads the matrix of the view
VecCanAlias(e) == e.kind \in {"rowscale", "rowsum", "svecrow", "rowdiv", "row"}

\* (~rhs)[j] of a dense right-hand side
At(e, m, j) ==
    CASE e.kind = "dvec"     -> e.val[j]
      [] e.kind = "pvec"     -> e.val[j]
      [] e.kind = "rowscale" -> Get(m, e.k, j) * e.s
      [] e.kind = "rowsum"   -> Get(m, e.k, j) + Get(m, e.k2, j)
      [] e.kind = "rowdiv"   -> Get(m, e.k, j) \div e.s
      [] e.kind = "row"      -> Get(m, e.k, j)
      [] e.kind = "xrow"     -> e.val[j]

\* (~rhs).isAliased( &matrix_ )
VecIsAliased(e) == e.kind \in {"rowscale", "rowsum", "svecrow", "rowdiv", "row"}

\* VT::vectorizable: a padded vector, or a dense expression over rows of a
\* matrix of a vectorizable type
VecVectorizable(e, m) ==
    \/ e.kind = "pvec"
    \/ e.kind \in {"rowscale", "rowsum"} /\ m.vectorizable

\* (~rhs).get( j ): the IT::size elements from index j on, padding included
VecGet(e, m, j) ==
    [k \in 0 .. IT_size - 1 |->
        CASE e.kind = "pvec"     -> IF j + k < e.size THEN e.val[j + k] ELSE 0
          [] e.kind = "rowscale" -> Get(m, e.k, j + k) * e.s
          [] e.kind = "rowsum"   -> Get(m, e.k, j + k) + Get(m, e.k2, j + k)]

\* the indices of the elements of a sparse right-hand side
Indices(e) == e.idx

\* element->value() of the element with index j of a sparse right-hand side
ValueAt(e, m, j) ==
    CASE e.kind = "svec"    -> e.val[j]
      [] e.kind = "svecrow" -> e.val[j] * Get(m, e.k, j)

\* The vector a right-hand side stands for on matrix m: element j
Denote(e, m, j) ==
    IF IsSparseVector(e)
    THEN IF j \in Indices(e) THEN ValueAt(e, m, j) ELSE 0
    ELSE At(e, m, j)

\* const typename VT::ResultType tmp( ~rhs ): a dense right-hand side gives a
\* dense vector, a sparse one a sparse vector with the same elements
ResultTypeOf(e, m) ==
    IF IsSparseVector(e)
    THEN SVec(VecSize(e, m), Indices(e), [j \in Indices(e) |-> ValueAt(e, m, j)])
    ELSE IF VecVectorizable(e, m)
         THEN PVec(VecSize(e, m), [j \in 0 .. VecSize(e, m) - 1 |-> At(e, m, j)])
         ELSE DVec(VecSize(e, m), [j \in 0 .. VecSize(e, m) - 1 |-> At(e, m, j)])

\* const ResultType tmp( ~rhs ), ResultType the dense vector type of a row
RowResultTypeOf(e, m) ==
    DVec(VecSize(e, m), [j \in 0 .. VecSize(e, m) - 1 |-> Denote(e, m, j)])

\* the compound operators applied by the kernels: =, +=, -=, *=
Combine(op, old, x) ==
    CASE op = "assign" -> x
      [] op = "add"    -> old + x
      [] op = "sub"    -> old - x
      [] op = "mult"   -> old * x

Min(S) == CHOOSE x \in S : \A y \in S : x <= y

\* n & size_t(-2)
AndNeg2(n) == n - (n % 2)

\* size_t is kept to 31 bits: the largest value
SizeTMax == 2147483647

\* size_t( -x ) for 0 < x
SizeTNeg(x) == (SizeTMax - x) + 1

\* a & b on size_t
RECURSIVE BitAnd(_, _)
BitAnd(a, b) ==
    IF a = 0 \/ b = 0 THEN 0
    ELSE (a % 2) * (b % 2) + 2 * BitAnd(a \div 2, b \div 2)


-----------------------------------------------------------------------------
(***************************************************************************)
(* The loops of the kernels.  Every element access of the right-hand side  *)
(* reads the matrix as the preceding writes of the loop left it.           *)
(***************************************************************************)
\* the 2-wide unrolled loop of the dense kernels
RECURSIVE UnrolledLoop(_, _, _, _, _, _)
UnrolledLoop(m, row, rhs, op, j, jend) ==
    IF j < jend
    THEN LET m1 == Set(m, row, j, Combine(op, Get(m, row, j), At(rhs, m, j)))
             m2 == Set(m1, row, j + 1,
                       Combine(op, Get(m1, row, j + 1), At(rhs, m1, j + 1)))
         IN  UnrolledLoop(m2, row, rhs, op, j + 2, jend)
    ELSE m

\* a dense kernel: the unrolled loop up to jend and the single trailing element
DenseKernel(m, row, rhs, op) ==
    LET n    == VecSize(rhs, m)
        jend == AndNeg2(n)
        m1   == UnrolledLoop(m, row, rhs, op, 0, jend)
    IN  IF jend < n
        THEN Set(m1, row, jend, Combine(op, Get(m1, row, jend), At(rhs, m1, jend)))
        ELSE m1

\* the loop over the elements of a sparse right-hand side, by increasing index
RECURSIVE ElementLoop(_, _, _, _, _)
ElementLoop(m, row, rhs, op, todo) ==
    IF todo = {}
    THEN m
    ELSE LET j == Min(todo)
         IN  ElementLoop(Set(m, row, j, Combine(op, Get(m, row, j), ValueAt(rhs, m, j))),
                         row, rhs, op, todo \ {j})

\* the loop of the sparse multiplication kernel: tmp[index] * element->value()
RECURSIVE MultElementLoop(_, _, _, _, _)
MultElementLoop(m, row, rhs, tmp, todo) ==
    IF todo = {}
    THEN m
    ELSE LET j == Min(todo)
         IN  MultElementLoop(Set(m, row, j, tmp.val[j] * ValueAt(rhs, m, j)),
                             row, rhs, tmp, todo \ {j})

\* for( j=0; j<columns; ++j ) matrix_(row_,j) = x
RECURSIVE FillLoop(_, _, _, _)
FillLoop(m, row, x, j) ==
    IF j < m.columns THEN FillLoop(Set(m, row, j, x), row, x, j + 1) ELSE m

\* load( &matrix_(row_,j) ): the IT::size elements stored from (row,j) on
Load(m, row, j) == [k \in 0 .. IT_size - 1 |-> m.v[Addr(m, row, j) + k]]

\* a store that covers one element more than an intrinsic vector
Store_Wide(m, row, j, x) ==
    [m EXCEPT !.v = [a \in DOMAIN m.v |->
        IF a \in Addr(m, row, j) .. Addr(m, row, j) + IT_size
        THEN x[(a - Addr(m, row, j)) % IT_size]
        ELSE m.v[a]]]

\* store( &matrix_(row_,j), x ) and stream( &matrix_(row_,j), x )
Store(m, row, j, x) ==
    [m EXCEPT !.v = [a \in DOMAIN m.v |->
        IF a \in Addr(m, row, j) .. Addr(m, row, j) + IT_size - 1
        THEN x[a - Addr(m, row, j)]
        ELSE m.v[a]]]

\* one statement of a vectorized kernel:
\* store( &matrix_(row_,j), load( &matrix_(row_,j) ) op (~rhs).get(j) )
IntrinsicStep(m, row, rhs, op, j) ==
    Store(m, row, j,
          [k \in 0 .. IT_size - 1 |->
              Combine(op, Load(m, row, j)[k], VecGet(rhs, m, j)[k])])

\* for( j=0; j<columns; j+=IT::size ) stream( &matrix_(row_,j), (~rhs).get(j) )
RECURSIVE StreamLoop(_, _, _, _)
StreamLoop(m, row, rhs, j) ==
    IF j < m.columns
    THEN StreamLoop(Store(m, row, j, VecGet(rhs, m, j)), row, rhs, j + IT_size)
    ELSE m

\* the loop over blocks of four intrinsic vectors
RECURSIVE BlockLoop(_, _, _, _, _, _)
BlockLoop(m, row, rhs, op, j, jend) ==
    IF j < jend
    THEN LET m1 == IntrinsicStep(m, row, rhs, op, j)
             m2 == IntrinsicStep(m1, row, rhs, op, j + IT_size)
             m3 == IntrinsicStep(m2, row, rhs, op, j + IT_size * 2)
             m4 == IntrinsicStep(m3, row, rhs, op, j + IT_size * 3)
         IN  BlockLoop(m4, row, rhs, op, j + IT_size * 4, jend)
    ELSE m

\* for( j=jend; j<columns; j+=IT::size ): one intrinsic vector at a time
RECURSIVE RestLoop(_, _, _, _, _)
RestLoop(m, row, rhs, op, j) ==
    IF j < m.columns
    THEN RestLoop(IntrinsicStep(m, row, rhs, op, j), row, rhs, op, j + IT_size)
    ELSE m

\* a block end computed from the width of one intrinsic vector only
BlockEnd_OneVector(columns, w) == BitAnd(columns, SizeTNeg(w))

\* columns & size_t(-IT::size*4) for IT::size = w
BlockEnd(columns, w) == BitAnd(columns, SizeTNeg(w * 4))

\* a vectorized kernel: jend = columns & size_t(-IT::size*4), the blocks up
\* to jend and the remaining intrinsic vectors
VectorKernel(m, row, rhs, op) ==
    LET jend == BlockEnd(m.columns, IT_size)
    IN  RestLoop(BlockLoop(m, row, rhs, op, 0, jend), row, rhs, op, jend)

\* for( j=0; j<columns; ++j ) matrix_(row_,j) = rhs[j]
RECURSIVE CopyLoop(_, _, _, _)
CopyLoop(m, row, rhs, j) ==
    IF j < m.columns
    THEN CopyLoop(Set(m, row, j, At(rhs, m, j)), row, rhs, j + 1)
    ELSE m

\* for( j=0; j<size(); ++j ) matrix_(row_,j) *= scalar
RECURSIVE ScaleLoop(_, _, _, _)
ScaleLoop(m, row, scalar, j) ==
    IF j < m.columns
    THEN ScaleLoop(Set(m, row, j, Get(m, row, j) * scalar), row, scalar, j + 1)
    ELSE m

\* for( j=0; j<columns; ++j ) if( !isDefault( matrix_(row_,j) ) ) ++nonzeros
RECURSIVE CountLoop(_, _, _, _)
CountLoop(m, row, j, nonzeros) ==
    IF j < m.columns
    THEN CountLoop(m, row, j + 1, IF Get(m, row, j) # 0 THEN nonzeros + 1 ELSE nonzeros)
    ELSE nonzeros

-----------------------------------------------------------------------------
(***************************************************************************)
(* DenseRow<MT,true>: the view of a row of a row-major matrix.  A view is  *)
(* the pair of the matrix it refers to and the row index; an operation     *)
(* takes the matrix m and the index row and yields the matrix afterwards.  *)
(***************************************************************************)
\* the constructor: TRUE iff it throws std::invalid_argument
\* the bound test with < in place of <=
R_DenseRow_throws_Strict(m, index) == m.rows < index

R_DenseRow_throws(m, index) == m.rows <= index

\* the number of rows in place of the number of columns
R_size_Rows(m) == m.rows

R_size(m) == m.columns

R_subscript(m, row, index) == Get(m, row, index)

\* the element returned by value: the write goes to a copy
R_subscript_write_Copy(m, row, index, x) == m

R_subscript_write(m, row, index, x) == Set(m, row, index, x)

R_reset(m, row) == MatrixResetRow(m, row)

R_nonZeros(m, row) == MatrixNonZeros(m, row)

\* the scaling loop started at column 1
R_scale_FromOne(m, row, scalar) == ScaleLoop(m, row, scalar, 1)

R_scale(m, row, scalar) == ScaleLoop(m, row, scalar, 0)

\* self is the address of the matrix the view refers to, &matrix_
R_canAlias(self, alias) == self = alias

\* a view that never reports to be aliased
R_isAliased_Never(self, alias) == FALSE

R_isAliased(self, alias) == self = alias

\* the unrolled loop without the trailing single element
R_assign_dense_NoTail(m, row, rhs) ==
    UnrolledLoop(m, row, rhs, "assign", 0, AndNeg2(VecSize(rhs, m)))

R_assign_dense(m, row, rhs) == DenseKernel(m, row, rhs, "assign")

\* VectorizedAssign<VT>::value and its siblings for +=, -= and *=
VectorizedAssign(m, rhs) == m.vectorizable /\ VecVectorizable(rhs, m)

\* columns > cacheSize/( sizeof(ElementType)*3 ) && !(~rhs).isAliased( &matrix_ )
R_assign_streams(m, rhs) ==
    R_size(m) > CacheSize \div (SizeofElement * 3) /\ ~VecIsAliased(rhs)

\* the vectorized assignment without the loop after the blocks
R_assign_vectorized_NoRest(m, row, rhs) ==
    IF R_assign_streams(m, rhs)
    THEN StreamLoop(m, row, rhs, 0)
    ELSE BlockLoop(m, row, rhs, "assign", 0, BitAnd(m.columns, SizeTNeg(IT_size * 4)))

R_assign_vectorized(m, row, rhs) ==
    IF R_assign_streams(m, rhs)
    THEN StreamLoop(m, row, rhs, 0)
    ELSE VectorKernel(m, row, rhs, "assign")

R_assign_sparse(m, row, rhs) == ElementLoop(m, row, rhs, "assign", Indices(rhs))

R_addAssign_dense(m, row, rhs) == DenseKernel(m, row, rhs, "add")

R_addAssign_vectorized(m, row, rhs) == VectorKernel(m, row, rhs, "add")

R_subAssign_vectorized(m, row, rhs) == VectorKernel(m, row, rhs, "sub")

R_multAssign_vectorized(m, row, rhs) == VectorKernel(m, row, rhs, "mult")

\* the sparse addition kernel with the row reset first
R_addAssign_sparse_Reset(m, row, rhs) ==
    ElementLoop(MatrixResetRow(m, row), row, rhs, "add", Indices(rhs))

R_addAssign_sparse(m, row, rhs) == ElementLoop(m, row, rhs, "add", Indices(rhs))

R_subAssign_dense(m, row, rhs) == DenseKernel(m, row, rhs, "sub")

R_subAssign_sparse(m, row, rhs) == ElementLoop(m, row, rhs, "sub", Indices(rhs))

R_multAssign_dense(m, row, rhs) == DenseKernel(m, row, rhs, "mult")

\* the sparse multiplication kernel without the reset of the row
R_multAssign_sparse_NoReset(m, row, rhs) ==
    LET tmp == DVec(R_size(m), [j \in 0 .. R_size(m) - 1 |-> R_subscript(m, row, j)])
    IN  MultElementLoop(m, row, rhs, tmp, Indices(rhs))

R_multAssign_sparse(m, row, rhs) ==
    LET tmp == DVec(R_size(m), [j \in 0 .. R_size(m) - 1 |-> R_subscript(m, row, j)])
    IN  MultElementLoop(R_reset(m, row), row, rhs, tmp, Indices(rhs))

\* blaze::assign( *this, v ) and its siblings select the kernel by the
\* category of v
R_assign(m, row, v) ==
    IF IsSparseVector(v) THEN R_assign_sparse(m, row, v)
    ELSE IF VectorizedAssign(m, v) THEN R_assign_vectorized(m, row, v)
    ELSE R_assign_dense(m, row, v)

R_addAssign(m, row, v) ==
    IF IsSparseVector(v) THEN R_addAssign_sparse(m, row, v)
    ELSE IF VectorizedAssign(m, v) THEN R_addAssign_vectorized(m, row, v)
    ELSE R_addAssign_dense(m, row, v)

R_subAssign(m, row, v) ==
    IF IsSparseVector(v) THEN R_subAssign_sparse(m, row, v)
    ELSE IF VectorizedAssign(m, v) THEN R_subAssign_vectorized(m, row, v)
    ELSE R_subAssign_dense(m, row, v)

R_multAssign(m, row, v) ==
    IF IsSparseVector(v) THEN R_multAssign_sparse(m, row, v)
    ELSE IF VectorizedAssign(m, v) THEN R_multAssign_vectorized(m, row, v)
    ELSE R_multAssign_dense(m, row, v)

\* The operators yield the error they throw ("none" if they return) and the
\* matrix they leave.
\* the assignment with the row reset before the sizes are compared
R_opAssign_ResetFirst(m, row, rhs) ==
    LET m0 == IF IsSparseVector(rhs) /\ ~VecCanAlias(rhs) THEN R_reset(m, row) ELSE m
    IN  IF R_size(m) # VecSize(rhs, m)
        THEN [err |-> "size_mismatch", m |-> m0]
        ELSE IF VecCanAlias(rhs)
             THEN LET tmp == ResultTypeOf(rhs, m)
                  IN  [err |-> "none", m |-> R_assign(m, row, tmp)]
             ELSE [err |-> "none", m |-> R_assign(m0, row, rhs)]

R_opAssign(m, row, rhs) ==
    IF R_size(m) # VecSize(rhs, m)
    THEN [err |-> "size_mismatch", m |-> m]
    ELSE IF VecCanAlias(rhs)
         THEN LET tmp == ResultTypeOf(rhs, m)
              IN  [err |-> "none", m |-> R_assign(m, row, tmp)]
         ELSE [err |-> "none",
               m   |-> R_assign(IF IsSparseVector(rhs) THEN R_reset(m, row) ELSE m,
                                row, rhs)]

R_opAddAssign(m, row, rhs) ==
    IF R_size(m) # VecSize(rhs, m)
    THEN [err |-> "size_mismatch", m |-> m]
    ELSE IF VecCanAlias(rhs)
         THEN LET tmp == ResultTypeOf(rhs, m)
              IN  [err |-> "none", m |-> R_addAssign(m, row, tmp)]
         ELSE [err |-> "none", m |-> R_addAssign(m, row, rhs)]

R_opSubAssign(m, row, rhs) ==
    IF R_size(m) # VecSize(rhs, m)
    THEN [err |-> "size_mismatch", m |-> m]
    ELSE IF VecCanAlias(rhs)
         THEN LET tmp == ResultTypeOf(rhs, m)
              IN  [err |-> "none", m |-> R_subAssign(m, row, tmp)]
         ELSE [err |-> "none", m |-> R_subAssign(m, row, rhs)]

\* the multiplication assignment without the temporary
R_opMultAssign_NoTemp(m, row, rhs) ==
    IF R_size(m) # VecSize(rhs, m)
    THEN [err |-> "size_mismatch", m |-> m]
    ELSE [err |-> "none", m |-> R_multAssign(m, row, rhs)]

R_opMultAssign(m, row, rhs) ==
    IF R_size(m) # VecSize(rhs, m)
    THEN [err |-> "size_mismatch", m |-> m]
    ELSE IF VecCanAlias(rhs) \/ IsSparseVector(rhs)
         THEN LET tmp == ResultTypeOf(rhs, m)
              IN  [err |-> "none", m |-> R_multAssign(m, row, tmp)]
         ELSE [err |-> "none", m |-> R_multAssign(m, row, rhs)]

\* the scalar multiplication forwarded to operator+=
R_opMultScalar_Add(m, row, rhs) == R_opAddAssign(m, row, RowScale(row, rhs))

\* the homogeneous assignment to row 0 in place of row_
R_opAssignScalar_Row0(m, row, rhs) == FillLoop(m, 0, rhs, 0)

\* operator=( const ElementType& rhs )
R_opAssignScalar(m, row, rhs) == FillLoop(m, row, rhs, 0)

\* the copy assignment with the loop started at column 1
R_opCopyAssign_FromOne(m, row, rhs) ==
    IF rhs.kind = "row" /\ rhs.this
    THEN [err |-> "none", m |-> m]
    ELSE IF R_size(m) # VecSize(rhs, m)
         THEN [err |-> "size_mismatch", m |-> m]
         ELSE [err |-> "none", m |-> CopyLoop(m, row, rhs, 1)]

\* operator=( const DenseRow& rhs )
R_opCopyAssign(m, row, rhs) ==
    IF rhs.kind = "row" /\ rhs.this
    THEN [err |-> "none", m |-> m]
    ELSE IF R_size(m) # VecSize(rhs, m)
         THEN [err |-> "size_mismatch", m |-> m]
         ELSE [err |-> "none", m |-> CopyLoop(m, row, rhs, 0)]

\* operator/=( Other rhs ) with rhs # 0: operator=( (*this) / rhs )
R_opDivScalar(m, row, rhs) == R_opAssign(m, row, RowDiv(row, rhs))

\* operator*=( Other rhs ): operator=( (*this) * rhs )
R_opMultScalar(m, row, rhs) == R_opAssign(m, row, RowScale(row, rhs))

-----------------------------------------------------------------------------
(***************************************************************************)
(* DenseRow<MT,false>: the view of a row of a column-major matrix.         *)
(***************************************************************************)
\* a constructor without the test of the index
C_DenseRow_throws_Never(m, index) == FALSE

C_DenseRow_throws(m, index) == m.rows <= index

C_size(m) == m.columns

\* the element addressed as in a row-major matrix
C_subscript_Contiguous(m, row, index) == m.v[row * m.columns + index]

C_subscript(m, row, index) == Get(m, row, index)

C_subscript_write(m, row, index, x) == Set(m, row, index, x)

\* the reset loop started at column 1
C_reset_FromOne(m, row) == FillLoop(m, row, 0, 1)

\* for( j=0; j<columns; ++j ) reset( matrix_(row_,j) )
C_reset(m, row) == FillLoop(m, row, 0, 0)

\* the counting loop started at column 1
C_nonZeros_FromOne(m, row) == CountLoop(m, row, 1, 0)

C_nonZeros(m, row) == CountLoop(m, row, 0, 0)

C_scale(m, row, scalar) == ScaleLoop(m, row, scalar, 0)

C_canAlias(self, alias) == self = alias

C_isAliased(self, alias) == self = alias

C_assign_dense(m, row, rhs) == DenseKernel(m, row, rhs, "assign")

C_assign_sparse(m, row, rhs) == ElementLoop(m, row, rhs, "assign", Indices(rhs))

C_addAssign_dense(m, row, rhs) == DenseKernel(m, row, rhs, "add")

C_addAssign_sparse(m, row, rhs) == ElementLoop(m, row, rhs, "add", Indices(rhs))

C_subAssign_dense(m, row, rhs) == DenseKernel(m, row, rhs, "sub")

C_subAssign_sparse(m, row, rhs) == ElementLoop(m, row, rhs, "sub", Indices(rhs))

C_multAssign_dense(m, row, rhs) == DenseKernel(m, row, rhs, "mult")

C_multAssign_sparse(m, row, rhs) ==
    LET tmp == DVec(C_size(m), [j \in 0 .. C_size(m) - 1 |-> C_subscript(m, row, j)])
    IN  MultElementLoop(C_reset(m, row), row, rhs, tmp, Indices(rhs))

C_assign(m, row, v) ==
    IF IsSparseVector(v) THEN C_assign_sparse(m, row, v) ELSE C_assign_dense(m, row, v)

C_addAssign(m, row, v) ==
    IF IsSparseVector(v) THEN C_addAssign_sparse(m, row, v)
                         ELSE C_addAssign_dense(m, row, v)

C_subAssign(m, row, v) ==
    IF IsSparseVector(v) THEN C_subAssign_sparse(m, row, v)
                         ELSE C_subAssign_dense(m, row, v)

C_multAssign(m, row, v) ==
    IF IsSparseVector(v) THEN C_multAssign_sparse(m, row, v)
                         ELSE C_multAssign_dense(m, row, v)

\* the temporary is of the row's own ResultType, a dense vector
C_opAssign(m, row, rhs) ==
    IF C_size(m) # VecSize(rhs, m)
    THEN [err |-> "size_mismatch", m |-> m]
    ELSE IF VecCanAlias(rhs)
         THEN LET tmp == RowResultTypeOf(rhs, m)
              IN  [err |-> "none", m |-> C_assign(m, row, tmp)]
         ELSE [err |-> "none",
               m   |-> C_assign(IF IsSparseVector(rhs) THEN C_reset(m, row) ELSE m,
                                row, rhs)]

C_opAddAssign(m, row, rhs) ==
    IF C_size(m) # VecSize(rhs, m)
    THEN [err |-> "size_mismatch", m |-> m]
    ELSE IF VecCanAlias(rhs)
         THEN LET tmp == ResultTypeOf(rhs, m)
              IN  [err |-> "none", m |-> C_addAssign(m, row, tmp)]
         ELSE [err |-> "none", m |-> C_addAssign(m, row, rhs)]

C_opSubAssign(m, row, rhs) ==
    IF C_size(m) # VecSize(rhs, m)
    THEN [err |-> "size_mismatch", m |-> m]
    ELSE IF VecCanAlias(rhs)
         THEN LET tmp == ResultTypeOf(rhs, m)
              IN  [err |-> "none", m |-> C_subAssign(m, row, tmp)]
         ELSE [err |-> "none", m |-> C_subAssign(m, row, rhs)]

C_opMultAssign(m, row, rhs) ==
    IF C_size(m) # VecSize(rhs, m)
    THEN [err |-> "size_mismatch", m |-> m]
    ELSE IF VecCanAlias(rhs) \/ IsSparseVector(rhs)
         THEN LET tmp == ResultTypeOf(rhs, m)
              IN  [err |-> "none", m |-> C_multAssign(m, row, tmp)]
         ELSE [err |-> "none", m |-> C_multAssign(m, row, rhs)]

C_opAssignScalar(m, row, rhs) == FillLoop(m, row, rhs, 0)

C_opCopyAssign(m, row, rhs) ==
    IF rhs.kind = "row" /\ rhs.this
    THEN [err |-> "none", m |-> m]
    ELSE IF C_size(m) # VecSize(rhs, m)
         THEN [err |-> "size_mismatch", m |-> m]
         ELSE [err |-> "none", m |-> CopyLoop(m, row, rhs, 0)]

C_opDivScalar(m, row, rhs) == C_opAssign(m, row, RowDiv(row, rhs))

C_opMultScalar(m, row, rhs) == C_opAssign(m, row, RowScale(row, rhs))

\* row( dm, index ): forwards to the constructor of the view
row_throws(m, index) ==
    IF m.so THEN R_DenseRow_throws(m, index) ELSE C_DenseRow_throws(m, index)

\* reset( row ): row.reset()
reset(m, row) == IF m.so THEN R_reset(m, row) ELSE C_reset(m, row)

\* every element of the matrix cleared
clear_All(m, row) == [m EXCEPT !.v = [a \in DOMAIN m.v |-> 0]]

\* clear( row ): row.reset()
clear(m, row) == IF m.so THEN R_reset(m, row) ELSE C_reset(m, row)

\* for( i=0; i<row.size(); ++i ) if( !isDefault( row[i] ) ) return false
RECURSIVE IsDefaultLoop(_, _, _)
IsDefaultLoop(m, row, i) ==
    IF i < (IF m.so THEN R_size(m) ELSE C_size(m))
    THEN IF (IF m.so THEN R_subscript(m, row, i) ELSE C_subscript(m, row, i)) # 0
         THEN FALSE
         ELSE IsDefaultLoop(m, row, i + 1)
    ELSE TRUE

\* the loop started at element 1
isDefault_FromOne(m, row) == IsDefaultLoop(m, row, 1)

\* isDefault( row )
isDefault(m, row) == IsDefaultLoop(m, row, 0)


-----------------------------------------------------------------------------
(***************************************************************************)
(* The state machine.  A behaviour builds the two matrices and executes    *)
(* one statement on a row view of each.  pre keeps the matrices as they    *)
(* were before the statement, last the statement and what it threw.        *)
(***************************************************************************)
NoRhs == [kind |-> "none"]

NoThread == <<>>

Values == 0 .. MaxVal

\* the addresses of the two matrices and of a third matrix
AddressA == "A"
AddressB == "B"
Addresses == {AddressA, AddressB, "X"}

InitLogical(nr, nc, seed) ==
    [r \in 0 .. nr - 1 |-> [c \in 0 .. nc - 1 |-> seed + r * nc + c]]

DenseVectors(n) == {DVec(n, [j \in 0 .. n - 1 |-> a + j]) : a \in Values}

SparseVectors(n) ==
    {SVec(n, S, [j \in S |-> a + j]) : S \in SUBSET (0 .. n - 1), a \in 1 .. MaxVal}

\* sizes that differ from n
OtherSizes(n) == {n + 1} \cup (IF n > 0 THEN {n - 1} ELSE {})

\* the views a view of row i of m may be copy-assigned from: the view itself,
\* views of the rows of m, and views of a row of another matrix with the
\* same or another number of columns
CopySources(m, i) ==
    LET n == m.columns
    IN  {RowView(i, TRUE)}
          \cup {RowView(k, FALSE) : k \in RowsOf(m)}
          \cup {XRow(k, [j \in 0 .. k - 1 |-> MaxVal + j]) : k \in {n} \cup OtherSizes(n)}

\* vectors and expressions a statement on a view of m may have on its right
RightHandSides(m) ==
    LET n == m.columns
    IN  DenseVectors(n) \cup SparseVectors(n)
          \cup {DVec(k, [j \in 0 .. k - 1 |-> 1 + j]) : k \in OtherSizes(n)}
          \cup {SVec(k, IF n > 0 /\ k > 0 THEN {0} ELSE {}, [j \in {0} |-> 1]) :
                   k \in OtherSizes(n)}
          \cup {RowScale(k, s) : k \in RowsOf(m), s \in Values}
          \cup {RowSum(k, k2) : k \in RowsOf(m), k2 \in RowsOf(m)}
          \cup {SVecRow(S, [j \in S |-> 1 + j], k) :
                   S \in SUBSET (0 .. n - 1), k \in RowsOf(m)}

Init ==
    /\ \E nr \in 0 .. MaxRows, nc \in 0 .. MaxCols, seed \in Values :
          /\ A = MakeMatrix(TRUE, nr, nc, InitLogical(nr, nc, seed))
          /\ B = MakeMatrix(FALSE, nr, nc, InitLogical(nr, nc, seed))
    /\ pre = [A |-> A, B |-> B]
    /\ last = [op |-> "none", row |-> 0, rhs |-> NoRhs, col |-> 0, val |-> 0,
               errA |-> "none", errB |-> "none"]
    /\ pc = "ready"
    /\ th = NoThread

Done(op, i, rhs, j, x, ra, rb) ==
    /\ pc = "ready"
    /\ th' = th
    /\ pc' = "done"
    /\ pre' = [A |-> A, B |-> B]
    /\ A' = ra.m
    /\ B' = rb.m
    /\ last' = [op |-> op, row |-> i, rhs |-> rhs, col |-> j, val |-> x,
                errA |-> ra.err, errB |-> rb.err]

Ok(m) == [err |-> "none", m |-> m]

\* row( M, n )
Row ==
    \E n \in 0 .. MaxRows + 1 :
        Done("row", n, NoRhs, 0, 0,
             [err |-> IF row_throws(A, n) THEN "out_of_range" ELSE "none", m |-> A],
             [err |-> IF row_throws(B, n) THEN "out_of_range" ELSE "none", m |-> B])

\* row( M, i ) = rhs
Assign ==
    \E i \in RowsOf(A) : \E rhs \in RightHandSides(A) :
        Done("assign", i, rhs, 0, 0, R_opAssign(A, i, rhs), C_opAssign(B, i, rhs))

\* row( M, i ) += rhs
AddAssign ==
    \E i \in RowsOf(A) : \E rhs \in RightHandSides(A) :
        Done("add", i, rhs, 0, 0, R_opAddAssign(A, i, rhs), C_opAddAssign(B, i, rhs))

\* row( M, i ) -= rhs
SubAssign ==
    \E i \in RowsOf(A) : \E rhs \in RightHandSides(A) :
        Done("sub", i, rhs, 0, 0, R_opSubAssign(A, i, rhs), C_opSubAssign(B, i, rhs))

\* row( M, i ) *= rhs
MultAssign ==
    \E i \in RowsOf(A) : \E rhs \in RightHandSides(A) :
        Done("mult", i, rhs, 0, 0, R_opMultAssign(A, i, rhs), C_opMultAssign(B, i, rhs))

\* reset( row( M, i ) )
Reset ==
    \E i \in RowsOf(A) :
        Done("reset", i, NoRhs, 0, 0, Ok(reset(A, i)), Ok(reset(B, i)))

\* clear( row( M, i ) )
Clear ==
    \E i \in RowsOf(A) :
        Done("clear", i, NoRhs, 0, 0, Ok(clear(A, i)), Ok(clear(B, i)))

\* row( M, i ).scale( s )
Scale ==
    \E i \in RowsOf(A) : \E s \in Values :
        Done("scale", i, NoRhs, 0, s, Ok(R_scale(A, i, s)), Ok(C_scale(B, i, s)))

\* row( M, i ) *= s
MultScalar ==
    \E i \in RowsOf(A) : \E s \in Values :
        Done("multscalar", i, NoRhs, 0, s,
             R_opMultScalar(A, i, s), C_opMultScalar(B, i, s))

\* row( M, i ) /= s
DivScalar ==
    \E i \in RowsOf(A) : \E s \in 1 .. MaxVal :
        Done("divscalar", i, NoRhs, 0, s,
             R_opDivScalar(A, i, s), C_opDivScalar(B, i, s))

\* row( M, i ) = x
AssignScalar ==
    \E i \in RowsOf(A) : \E x \in Values :
        Done("fill", i, NoRhs, 0, x,
             Ok(R_opAssignScalar(A, i, x)), Ok(C_opAssignScalar(B, i, x)))

\* row( M, i ) = b, b a view of a row
CopyAssign ==
    \E i \in RowsOf(A) : \E b \in CopySources(A, i) :
        Done("copy", i, b, 0, 0, R_opCopyAssign(A, i, b), C_opCopyAssign(B, i, b))

\* isDefault( row( M, i ) )
IsDefault ==
    \E i \in RowsOf(A) :
        Done("isDefault", i, NoRhs, 0,
             [a |-> isDefault(A, i), b |-> isDefault(B, i)], Ok(A), Ok(B))

\* row( M, i ).nonZeros()
NonZeros ==
    \E i \in RowsOf(A) :
        Done("nonZeros", i, NoRhs, 0,
             [a |-> R_nonZeros(A, i), b |-> C_nonZeros(B, i)], Ok(A), Ok(B))

\* row( M, i ).canAlias( p ) and row( M, i ).isAliased( p )
CanAlias ==
    \E i \in RowsOf(A) : \E p \in Addresses :
        Done("canAlias", i, [kind |-> "addr", addr |-> p], 0,
             [ca |-> R_canAlias(AddressA, p), ia |-> R_isAliased(AddressA, p),
              cb |-> C_canAlias(AddressB, p), ib |-> C_isAliased(AddressB, p)],
             Ok(A), Ok(B))

\* row( M, i )[j] = x
SubscriptWrite ==
    \E i \in RowsOf(A) : \E j \in ColsOf(A) : \E x \in Values :
        Done("subscript", i, NoRhs, j, x,
             Ok(R_subscript_write(A, i, j, x)), Ok(C_subscript_write(B, i, j, x)))

\* M( i, j ) = x, a write to the matrix that does not go through a view
MatrixWrite ==
    \E i \in RowsOf(A) : \E j \in ColsOf(A) : \E x \in Values :
        Done("matrix", i, NoRhs, j, x, Ok(Set(A, i, j, x)), Ok(Set(B, i, j, x)))

Next ==
    \/ Row
    \/ Assign
    \/ AddAssign
    \/ SubAssign
    \/ MultAssign
    \/ Reset
    \/ Clear
    \/ Scale
    \/ MultScalar
    \/ DivScalar
    \/ AssignScalar
    \/ CopyAssign
    \/ IsDefault
    \/ NonZeros
    \/ CanAlias
    \/ SubscriptWrite
    \/ MatrixWrite

Spec == Init /\ [][Next]_vars

(***************************************************************************)
(* The kernels on a matrix of a vectorizable type.  A and B start as the   *)
(* same padded row-major matrix; a statement hands a dense source to the   *)
(* kernel selected for it on A and to the scalar kernel on B.              *)
(***************************************************************************)
\* Largest number of columns of a padded matrix.
MaxKCols == 10

\* dense sources of a vectorizable type: padded vectors and expressions over
\* rows of the matrix
KernelSources(m) ==
    {PVec(m.columns, [j \in 0 .. m.columns - 1 |-> a + j]) : a \in Values}
      \cup {RowScale(k, s) : k \in RowsOf(m), s \in Values}
      \cup {RowSum(k, k2) : k \in RowsOf(m), k2 \in RowsOf(m)}

KernelInit ==
    /\ \E nr \in 1 .. MaxRows, nc \in 0 .. MaxKCols, seed \in Values :
          /\ A = MakePadded(nr, nc, InitLogical(nr, nc, seed))
          /\ B = MakePadded(nr, nc, InitLogical(nr, nc, seed))
    /\ pre = [A |-> A, B |-> B]
    /\ last = [op |-> "none", row |-> 0, rhs |-> NoRhs, col |-> 0, val |-> 0,
               errA |-> "none", errB |-> "none"]
    /\ pc = "ready"
    /\ th = NoThread

\* assign( row( M, i ), v )
KernelAssign ==
    \E i \in RowsOf(A) : \E rhs \in KernelSources(A) :
        Done("assign", i, rhs, 0, 0,
             Ok(R_assign(A, i, rhs)), Ok(R_assign_dense(B, i, rhs)))

\* addAssign( row( M, i ), v )
KernelAddAssign ==
    \E i \in RowsOf(A) : \E rhs \in KernelSources(A) :
        Done("add", i, rhs, 0, 0,
             Ok(R_addAssign(A, i, rhs)), Ok(R_addAssign_dense(B, i, rhs)))

\* subAssign( row( M, i ), v )
KernelSubAssign ==
    \E i \in RowsOf(A) : \E rhs \in KernelSources(A) :
        Done("sub", i, rhs, 0, 0,
             Ok(R_subAssign(A, i, rhs)), Ok(R_subAssign_dense(B, i, rhs)))

\* multAssign( row( M, i ), v )
KernelMultAssign ==
    \E i \in RowsOf(A) : \E rhs \in KernelSources(A) :
        Done("mult", i, rhs, 0, 0,
             Ok(R_multAssign(A, i, rhs)), Ok(R_multAssign_dense(B, i, rhs)))

KernelNext ==
    \/ KernelAssign
    \/ KernelAddAssign
    \/ KernelSubAssign
    \/ KernelMultAssign

KernelSpec == KernelInit /\ [][KernelNext]_vars

-----------------------------------------------------------------------------
(***************************************************************************)
(* The operators of DenseRow<MT,true> one memory access at a time.  th is  *)
(* the statement row(M,row) op rhs in execution on A:                      *)
(*   check     the comparison of the sizes                                 *)
(*   eval      the construction of the temporary, one element of the       *)
(*             right-hand side read at a time                              *)
(*   snapshot  const ResultType tmp( *this ) of the sparse multiplication  *)
(*   reset     the reset of the row                                        *)
(*   kernel    the kernel, one element written at a time                   *)
(*   done, thrown   the operator has returned or thrown                    *)
(***************************************************************************)
\* an operator that never copies its right-hand side
S_materializes_Never(op, rhs) == FALSE

\* the condition of the branch that copies the right-hand side first
S_materializes(op, rhs) ==
    VecCanAlias(rhs) \/ (op = "mult" /\ IsSparseVector(rhs))

\* the first step of the kernel for the source src: the sparse
\* multiplication kernel starts with the copy of the row
KernelEntry(op, src) ==
    IF op = "mult" /\ IsSparseVector(src) THEN "snapshot" ELSE "kernel"

\* the positions of the elements of a vector, in the order of the accesses
Positions(e, m) == IF IsSparseVector(e) THEN Indices(e) ELSE 0 .. VecSize(e, m) - 1

\* the element at position j as an access reads it on the matrix m
Element(e, m, j) == IF IsSparseVector(e) THEN ValueAt(e, m, j) ELSE At(e, m, j)

\* the vector of the result type of e holding the elements val
Materialized(e, m, val) ==
    IF IsSparseVector(e) THEN SVec(VecSize(e, m), Indices(e), val)
    ELSE IF VecVectorizable(e, m) THEN PVec(VecSize(e, m), val)
    ELSE DVec(VecSize(e, m), val)

StepSources(m) ==
    LET n == m.columns
    IN  {DVec(n, [j \in 0 .. n - 1 |-> 1 + j]), DVec(n + 1, [j \in 0 .. n |-> 1 + j])}
          \cup {SVec(n, S, [j \in S |-> 1 + j]) : S \in SUBSET (0 .. n - 1)}
          \cup {RowScale(k, MaxVal) : k \in RowsOf(m)}
          \cup {RowSum(k, k2) : k \in RowsOf(m), k2 \in RowsOf(m)}
          \cup {SVecRow(S, [j \in S |-> 1 + j], k) :
                   S \in SUBSET (0 .. n - 1), k \in RowsOf(m)}

StepInit ==
    /\ \E nr \in 1 .. MaxRows, nc \in 0 .. MaxCols :
          /\ A = MakeMatrix(TRUE, nr, nc, InitLogical(nr, nc, 1))
          /\ B = MakeMatrix(FALSE, nr, nc, InitLogical(nr, nc, 1))
    /\ pre = [A |-> A, B |-> B]
    /\ last = [op |-> "none", row |-> 0, rhs |-> NoRhs, col |-> 0, val |-> 0,
               errA |-> "none", errB |-> "none"]
    /\ pc = "steps"
    /\ \E op \in {"assign", "add", "sub", "mult"}, i \in RowsOf(A),
          rhs \in StepSources(A) :
          th = [op |-> op, row |-> i, rhs |-> rhs, phase |-> "check",
                todo |-> {}, val |-> <<>>, src |-> NoRhs, snap |-> <<>>,
                reads |-> 0, writes |-> 0, copied |-> FALSE]

\* if( size() != (~rhs).size() ) throw ...; the choice of the branch
S_Check ==
    /\ th.phase = "check"
    /\ th' = IF R_size(A) # VecSize(th.rhs, A)
             THEN [th EXCEPT !.phase = "thrown"]
             ELSE IF S_materializes(th.op, th.rhs)
                  THEN [th EXCEPT !.phase = "eval", !.todo = Positions(th.rhs, A)]
                  ELSE [th EXCEPT
                          !.phase = IF th.op = "assign" /\ IsSparseVector(th.rhs)
                                    THEN "reset" ELSE KernelEntry(th.op, th.rhs),
                          !.src = th.rhs, !.todo = Positions(th.rhs, A)]
    /\ UNCHANGED <<A, B, pre, last, pc>>

\* const typename VT::ResultType tmp( ~rhs ): the next element is read, or
\* the temporary is complete
S_Eval ==
    /\ th.phase = "eval"
    /\ th' = IF th.todo = {}
             THEN [th EXCEPT
                     !.phase = KernelEntry(th.op, th.rhs),
                     !.src = Materialized(th.rhs, A, th.val),
                     !.todo = Positions(th.rhs, A),
                     !.copied = TRUE]
             ELSE LET j == Min(th.todo)
                  IN  [th EXCEPT !.val = (j :> Element(th.rhs, A, j)) @@ th.val,
                                 !.todo = th.todo \ {j},
                                 !.reads = th.reads + 1]
    /\ UNCHANGED <<A, B, pre, last, pc>>

\* const ResultType tmp( *this ) of the sparse multiplication kernel
S_Snapshot ==
    /\ th.phase = "snapshot"
    /\ th' = [th EXCEPT !.phase = "reset",
                        !.snap = [j \in ColsOf(A) |-> R_subscript(A, th.row, j)]]
    /\ UNCHANGED <<A, B, pre, last, pc>>

\* reset()
S_Reset ==
    /\ th.phase = "reset"
    /\ A' = R_reset(A, th.row)
    /\ th' = [th EXCEPT !.phase = "kernel", !.writes = th.writes + 1]
    /\ UNCHANGED <<B, pre, last, pc>>

\* one statement of the loop of a kernel, or its return
S_Kernel ==
    /\ th.phase = "kernel"
    /\ IF th.todo = {}
       THEN /\ th' = [th EXCEPT !.phase = "done"]
            /\ A' = A
       ELSE LET j == Min(th.todo)
                x == IF th.op = "mult" /\ IsSparseVector(th.src)
                     THEN th.snap[j] * ValueAt(th.src, A, j)
                     ELSE Combine(th.op, Get(A, th.row, j), Element(th.src, A, j))
            IN  /\ A' = Set(A, th.row, j, x)
                /\ th' = [th EXCEPT !.todo = th.todo \ {j},
                                    !.writes = th.writes + 1]
    /\ UNCHANGED <<B, pre, last, pc>>

StepNext ==
    \/ S_Check
    \/ S_Eval
    \/ S_Snapshot
    \/ S_Reset
    \/ S_Kernel

StepSpec == StepInit /\ [][StepNext]_vars

-----------------------------------------------------------------------------
(***************************************************************************)
(* Two threads, each executing addAssign with a dense vector on its own    *)
(* view of the same row of A, with no synchronization.  The statement      *)
(* matrix_(row_,j) += (~rhs)[j] of a thread is the load of the element     *)
(* into reg and the store of reg + (~rhs)[j]; the loads and stores of the  *)
(* two threads interleave in any order.  lost collects the columns where   *)
(* a thread stored over a value that was written after its load.           *)
(***************************************************************************)
Threads == {1, 2}

RaceInit ==
    /\ \E nr \in 1 .. MaxRows, nc \in 0 .. MaxCols, seed \in Values :
          /\ A = MakeMatrix(TRUE, nr, nc, InitLogical(nr, nc, seed))
          /\ B = MakeMatrix(FALSE, nr, nc, InitLogical(nr, nc, seed))
    /\ pre = [A |-> A, B |-> B]
    /\ last = [op |-> "none", row |-> 0, rhs |-> NoRhs, col |-> 0, val |-> 0,
               errA |-> "none", errB |-> "none"]
    /\ pc = "threads"
    /\ \E i \in RowsOf(A), a \in 1 .. MaxVal :
          th = [t \in Threads |->
                  [row |-> i,
                   rhs |-> DVec(A.columns, [j \in ColsOf(A) |->
                                              IF t = 1 THEN 1 + j ELSE a + j]),
                   j |-> 0, reg |-> 0, lost |-> {},
                   phase |-> IF A.columns = 0 THEN "done" ELSE "load"]]

\* the load of matrix_(row_,j)
T_Load(t) ==
    /\ th[t].phase = "load"
    /\ th' = [th EXCEPT ![t].reg = Get(A, th[t].row, th[t].j), ![t].phase = "store"]
    /\ UNCHANGED <<A, B, pre, last, pc>>

\* an addition made on the element in memory in one step
T_StoreValue_Atomic(m, row, j, reg, x) == Get(m, row, j) + x

\* the value stored by matrix_(row_,j) += x after the load of reg
T_StoreValue(m, row, j, reg, x) == reg + x

\* the store to matrix_(row_,j) and the step to the next element
T_Store(t) ==
    /\ th[t].phase = "store"
    /\ LET r == th[t].row
           j == th[t].j
       IN  /\ A' = Set(A, r, j, T_StoreValue(A, r, j, th[t].reg, th[t].rhs.val[j]))
           /\ th' = [th EXCEPT
                       ![t].lost = IF Get(A, r, j) # th[t].reg
                                   THEN th[t].lost \cup {j} ELSE th[t].lost,
                       ![t].j = j + 1,
                       ![t].phase = IF j + 1 < VecSize(th[t].rhs, A)
                                    THEN "load" ELSE "done"]
    /\ UNCHANGED <<B, pre, last, pc>>

RaceNext ==
    \E t \in Threads : T_Load(t) \/ T_Store(t)

RaceSpec == RaceInit /\ [][RaceNext]_vars


(***************************************************************************)
(* The iterator of DenseRow<MT,false>.  A and B are two column-major       *)
(* matrices of the same shape; an iterator is the matrix it refers to      *)
(* (its address), a row index and the current column index.  th holds the  *)
(* loop for( it=begin(); it!=end(); ++it ) over a view of B:               *)
(*   it     the iterator of the loop                                       *)
(*   other  an iterator over some row of A or of B                         *)
(*   n      the number of increments of it                                 *)
(*   seen   the elements the loop has dereferenced                         *)
(***************************************************************************)
\* the matrix object at an address
MatrixAt(addr) == IF addr = AddressA THEN A ELSE B

\* RowIterator( matrix, row, column )
RowIterator(matrix, row, column) == [matrix |-> matrix, row |-> row, column |-> column]

\* operator++
RowIterator_inc(it) == [it EXCEPT !.column = it.column + 1]

\* operator*
RowIterator_deref(it) == Get(MatrixAt(it.matrix), it.row, it.column)

\* a comparison that leaves out the matrix
RowIterator_eq_NoMatrix(a, b) == a.row = b.row /\ a.column = b.column

\* operator==
RowIterator_eq(a, b) == a.matrix = b.matrix /\ a.row = b.row /\ a.column = b.column

\* operator!=
RowIterator_ne(a, b) == ~RowIterator_eq(a, b)

\* operator-
RowIterator_minus(a, b) == a.column - b.column

\* begin(), cbegin()
C_begin(matrix, row) == RowIterator(matrix, row, 0)

\* end(), cend()
C_end(matrix, row) == RowIterator(matrix, row, C_size(MatrixAt(matrix)))

IterInit ==
    /\ \E nr \in 1 .. MaxRows, nc \in 0 .. MaxCols, seed \in Values :
          /\ A = MakeMatrix(FALSE, nr, nc, InitLogical(nr, nc, (seed + 1) % (MaxVal + 1)))
          /\ B = MakeMatrix(FALSE, nr, nc, InitLogical(nr, nc, seed))
    /\ pre = [A |-> A, B |-> B]
    /\ last = [op |-> "none", row |-> 0, rhs |-> NoRhs, col |-> 0, val |-> 0,
               errA |-> "none", errB |-> "none"]
    /\ pc = "iterate"
    /\ \E i \in RowsOf(B), k \in RowsOf(A), a \in {AddressA, AddressB} :
          th = [it |-> C_begin(AddressB, i), other |-> C_begin(a, k),
                n |-> 0, seen |-> <<>>, phase |-> "loop"]

\* it != end() holds: the body reads *it, then ++it
I_Step ==
    /\ th.phase = "loop"
    /\ RowIterator_ne(th.it, C_end(AddressB, th.it.row))
    /\ th' = [th EXCEPT !.seen = Append(th.seen, RowIterator_deref(th.it)),
                        !.it = RowIterator_inc(th.it),
                        !.n = th.n + 1]
    /\ UNCHANGED <<A, B, pre, last, pc>>

\* it != end() fails: the loop is left
I_Exit ==
    /\ th.phase = "loop"
    /\ ~RowIterator_ne(th.it, C_end(AddressB, th.it.row))
    /\ th' = [th EXCEPT !.phase = "done"]
    /\ UNCHANGED <<A, B, pre, last, pc>>

\* ++other, up to the end() of its view
I_Other ==
    /\ RowIterator_ne(th.other, C_end(th.other.matrix, th.other.row))
    /\ th' = [th EXCEPT !.other = RowIterator_inc(th.other)]
    /\ UNCHANGED <<A, B, pre, last, pc>>

IterNext == I_Step \/ I_Exit \/ I_Other

\* the loop is a sequential program: it takes its next step when it has one
IterSpec == IterInit /\ [][IterNext]_vars /\ WF_vars(I_Step \/ I_Exit)


(***************************************************************************)
(* The end of the block loop of the vectorized kernels, as a function of   *)
(* the number of columns and of the number w of elements of an intrinsic   *)
(* vector.  th holds columns, w, the two sides of the assertion that       *)
(* precedes the computation of jend, and jend.                             *)
(***************************************************************************)
MaxBlockCols == 40

MaxLogWidth == 3

RECURSIVE Pow2(_)
Pow2(e) == IF e = 0 THEN 1 ELSE 2 * Pow2(e - 1)

\* the numbers of columns: small ones and the largest ones of size_t
ColumnCounts == (0 .. MaxBlockCols) \cup {SizeTMax - k : k \in 0 .. MaxBlockCols}

\* the numbers of elements of an intrinsic vector
Widths == {Pow2(e) : e \in 0 .. MaxLogWidth}

BlockInit ==
    /\ A = MakeMatrix(TRUE, 1, 0, InitLogical(1, 0, 0))
    /\ B = MakeMatrix(FALSE, 1, 0, InitLogical(1, 0, 0))
    /\ pre = [A |-> A, B |-> B]
    /\ last = [op |-> "none", row |-> 0, rhs |-> NoRhs, col |-> 0, val |-> 0,
               errA |-> "none", errB |-> "none"]
    /\ pc = "block"
    /\ \E n \in ColumnCounts, w \in Widths :
          th = [columns |-> n, w |-> w, lhs |-> 0, rhs |-> 0, jend |-> 0,
                phase |-> "assert"]

\* the two sides of BLAZE_INTERNAL_ASSERT( columns - ( columns % (IT::size*4UL) )
\*                                         == ( columns & size_t(-IT::size*4) ) )
J_Assert ==
    /\ pc = "block" /\ th.phase = "assert"
    /\ th' = [th EXCEPT !.lhs = th.columns - (th.columns % (th.w * 4)),
                        !.rhs = BitAnd(th.columns, SizeTNeg(th.w * 4)),
                        !.phase = "jend"]
    /\ UNCHANGED <<A, B, pre, last, pc>>

\* const size_t jend( columns & size_t(-IT::size*4) )
J_End ==
    /\ pc = "block" /\ th.phase = "jend"
    /\ th' = [th EXCEPT !.jend = BlockEnd(th.columns, th.w), !.phase = "done"]
    /\ UNCHANGED <<A, B, pre, last, pc>>

BlockNext == J_Assert \/ J_End

BlockSpec == BlockInit /\ [][BlockNext]_vars


(***************************************************************************)
(* The loops of the views one iteration at a time, on A through the        *)
(* row-major view and on B through the column-major view.  th holds the    *)
(* loop in execution:                                                      *)
(*   loop   dense, sparse: the kernel for the operator op and the source   *)
(*          rhs; reset, scale, nonZeros, isnan, isDefault, fill (the       *)
(*          homogeneous assignment) and copy (the copy assignment)         *)
(*   j      the loop variable, jend the end of the unrolled loop           *)
(*   todo   the elements of a sparse source not visited yet                *)
(*   tmp    the copies of the row made by the sparse multiplication kernel *)
(*   trace  the indices of the element accesses made so far, in order      *)
(*   val    the value the loop computes                                    *)
(*   phase  pairs, snapshot, elements, count: the position in the loop;    *)
(*          done; breach: an access was about to be made with an index     *)
(*          that is not below size()                                       *)
(* reset() and nonZeros() of the row-major view forward to the matrix and  *)
(* access no element themselves: these two loops run on B only.            *)
(***************************************************************************)
CountingLoops == {"reset", "scale", "nonZeros", "isnan", "isDefault", "fill", "copy"}

\* a kernel that never executes the statement after the unrolled loop
TailStep_Never(jend, n) == FALSE

\* if( jend < (~rhs).size() )
TailStep(jend, n) == jend < n

\* a loop that runs up to size() inclusive
CountGuard_Inclusive(j, n) == j <= n

\* j<columns, j<size(), i<row.size()
CountGuard(j, n) == j < n

\* matrix_(row_,j) op= (~rhs)[j]
ElementStep(m, row, rhs, op, j) ==
    Set(m, row, j, Combine(op, Get(m, row, j), At(rhs, m, j)))

\* the statement of a counting loop for the index j
CountStep(loop, m, row, rhs, x, j) ==
    CASE loop = "reset" -> Set(m, row, j, 0)
      [] loop = "scale" -> Set(m, row, j, Get(m, row, j) * x)
      [] loop = "fill"  -> Set(m, row, j, x)
      [] loop = "copy"  -> Set(m, row, j, At(rhs, m, j))
      [] OTHER          -> m

\* the loop at its start
LoopAt(loop, op, row, rhs, x, jend, phase) ==
    [loop |-> loop, op |-> op, row |-> row, rhs |-> rhs, x |-> x, j |-> 0,
     jend |-> jend, todo |-> IF loop = "sparse" THEN Indices(rhs) ELSE {},
     tmp |-> <<>>, trace |-> <<>>, val |-> 0, phase |-> phase]

LoopInit ==
    /\ \E nr \in 1 .. MaxRows, nc \in 0 .. MaxCols, seed \in Values :
          /\ A = MakeMatrix(TRUE, nr, nc, InitLogical(nr, nc, seed))
          /\ B = MakeMatrix(FALSE, nr, nc, InitLogical(nr, nc, seed))
    /\ pre = [A |-> A, B |-> B]
    /\ last = [op |-> "none", row |-> 0, rhs |-> NoRhs, col |-> 0, val |-> 0,
               errA |-> "none", errB |-> "none"]
    /\ pc = "loops"
    /\ \E i \in RowsOf(A) :
          \/ \E op \in {"assign", "add", "sub", "mult"}, rhs \in DenseVectors(A.columns) :
                th = LoopAt("dense", op, i, rhs, 0, AndNeg2(VecSize(rhs, A)), "pairs")
          \/ \E op \in {"assign", "add", "sub", "mult"}, rhs \in SparseVectors(A.columns) :
                th = LoopAt("sparse", op, i, rhs, 0, 0,
                            IF op = "mult" THEN "snapshot" ELSE "elements")
          \/ \E loop \in CountingLoops \ {"copy"} :
                \E x \in IF loop \in {"scale", "fill"} THEN Values ELSE {0} :
                    th = LoopAt(loop, "none", i, NoRhs, x, 0, "count")
          \/ \E k \in RowsOf(A) :
                th = LoopAt("copy", "none", i, RowView(k, FALSE), 0, 0, "count")

\* an iteration of for( j=0; j<jend; j+=2 ): the elements j and j+1
L_Pair ==
    /\ th.phase = "pairs" /\ th.j < th.jend
    /\ IF th.j + 1 < R_size(A)
       THEN /\ A' = ElementStep(ElementStep(A, th.row, th.rhs, th.op, th.j),
                                th.row, th.rhs, th.op, th.j + 1)
            /\ B' = ElementStep(ElementStep(B, th.row, th.rhs, th.op, th.j),
                                th.row, th.rhs, th.op, th.j + 1)
            /\ th' = [th EXCEPT !.trace = th.trace \o <<th.j, th.j + 1>>,
                                !.j = th.j + 2]
       ELSE /\ th' = [th EXCEPT !.trace = th.trace \o <<th.j, th.j + 1>>,
                                !.phase = "breach"]
            /\ UNCHANGED <<A, B>>
    /\ UNCHANGED <<pre, last, pc>>

\* the end of the unrolled loop and the statement for the element jend
L_Tail ==
    /\ th.phase = "pairs" /\ ~(th.j < th.jend)
    /\ IF ~TailStep(th.jend, VecSize(th.rhs, A))
       THEN /\ th' = [th EXCEPT !.phase = "done"]
            /\ UNCHANGED <<A, B>>
       ELSE IF th.jend < R_size(A)
            THEN /\ A' = ElementStep(A, th.row, th.rhs, th.op, th.jend)
                 /\ B' = ElementStep(B, th.row, th.rhs, th.op, th.jend)
                 /\ th' = [th EXCEPT !.trace = Append(th.trace, th.jend),
                                     !.phase = "done"]
            ELSE /\ th' = [th EXCEPT !.trace = Append(th.trace, th.jend),
                                     !.phase = "breach"]
                 /\ UNCHANGED <<A, B>>
    /\ UNCHANGED <<pre, last, pc>>

\* const ResultType tmp( *this ); reset();
L_Snapshot ==
    /\ th.phase = "snapshot"
    /\ th' = [th EXCEPT
                !.tmp = [A |-> DVec(R_size(A), [j \in ColsOf(A) |-> R_subscript(A, th.row, j)]),
                         B |-> DVec(C_size(B), [j \in ColsOf(B) |-> C_subscript(B, th.row, j)])],
                !.phase = "elements"]
    /\ A' = R_reset(A, th.row)
    /\ B' = C_reset(B, th.row)
    /\ UNCHANGED <<pre, last, pc>>

\* an iteration of the loop over the elements of a sparse source: the access
\* to matrix_(row_,index) and, in the multiplication kernel, to tmp[index]
L_Element ==
    /\ th.phase = "elements" /\ th.todo # {}
    /\ LET j == Min(th.todo)
       IN  IF j < R_size(A)
           THEN /\ A' = IF th.op = "mult"
                        THEN MultElementLoop(A, th.row, th.rhs, th.tmp.A, {j})
                        ELSE ElementLoop(A, th.row, th.rhs, th.op, {j})
                /\ B' = IF th.op = "mult"
                        THEN MultElementLoop(B, th.row, th.rhs, th.tmp.B, {j})
                        ELSE ElementLoop(B, th.row, th.rhs, th.op, {j})
                /\ th' = [th EXCEPT
                            !.trace = th.trace \o (IF th.op = "mult" THEN <<j, j>> ELSE <<j>>),
                            !.todo = th.todo \ {j}]
           ELSE /\ th' = [th EXCEPT !.trace = Append(th.trace, j), !.phase = "breach"]
                /\ UNCHANGED <<A, B>>
    /\ UNCHANGED <<pre, last, pc>>

\* an iteration of a counting loop: the access to the element j
L_Count ==
    /\ th.phase = "count" /\ CountGuard(th.j, R_size(A))
    /\ IF th.j < R_size(A)
       THEN /\ A' = IF th.loop \in {"reset", "nonZeros"} THEN A
                    ELSE CountStep(th.loop, A, th.row, th.rhs, th.x, th.j)
            /\ B' = CountStep(th.loop, B, th.row, th.rhs, th.x, th.j)
            /\ th' = [th EXCEPT
                        !.trace = Append(th.trace, th.j),
                        !.j = th.j + 1,
                        !.val = IF th.loop = "nonZeros" /\ Get(B, th.row, th.j) # 0
                                THEN th.val + 1 ELSE th.val,
                        !.phase = IF th.loop = "isDefault" /\ Get(A, th.row, th.j) # 0
                                  THEN "done" ELSE "count"]
       ELSE /\ th' = [th EXCEPT !.trace = Append(th.trace, th.j), !.phase = "breach"]
            /\ UNCHANGED <<A, B>>
    /\ UNCHANGED <<pre, last, pc>>

\* the end of a counting loop or of a loop over the elements of a source
L_Return ==
    /\ \/ th.phase = "count" /\ ~CountGuard(th.j, R_size(A))
       \/ th.phase = "elements" /\ th.todo = {}
    /\ th' = [th EXCEPT !.phase = "done",
                        !.val = IF th.loop = "isDefault" THEN 1 ELSE th.val]
    /\ UNCHANGED <<A, B, pre, last, pc>>

LoopNext ==
    \/ L_Pair
    \/ L_Tail
    \/ L_Snapshot
    \/ L_Element
    \/ L_Count
    \/ L_Return

LoopSpec == LoopInit /\ [][LoopNext]_vars

-----------------------------------------------------------------------------
(***************************************************************************)
(* Properties.                                                             *)
(***************************************************************************)
Assigning == last.op \in {"assign", "add", "sub", "mult"}

\* the right-hand side of the last statement has the size of the view
SameSize == VecSize(last.rhs, pre.A) = pre.A.columns

\* every element outside row i of m is as it is in m0, and the shape is kept
OtherRowsKept(m, m0, i) ==
    /\ m.rows = m0.rows /\ m.columns = m0.columns /\ DOMAIN m.v = DOMAIN m0.v
    /\ \A r \in RowsOf(m0) \ {i} : \A c \in ColsOf(m0) : Get(m, r, c) = Get(m0, r, c)

\* row i of m, read through the view, is the vector the right-hand side e
\* stands for on the matrix m0
RowIs(m, i, e, m0) ==
    \A j \in ColsOf(m0) :
        (IF m.so THEN R_subscript(m, i, j) ELSE C_subscript(m, i, j)) = Denote(e, m0, j)

\* C1: after row(M,i) = v with a dense vector v of the size of the row,
\* row(M,i)[j] = v[j] for every column j and every element of the other rows
\* is as before, through the row-major and through the column-major view.
C1_DenseAssign ==
    (last.op = "assign" /\ last.rhs.kind = "dvec" /\ SameSize) =>
        /\ last.errA = "none" /\ last.errB = "none"
        /\ \A j \in ColsOf(pre.A) :
              /\ R_subscript(A, last.row, j) = last.rhs.val[j]
              /\ C_subscript(B, last.row, j) = last.rhs.val[j]
        /\ OtherRowsKept(A, pre.A, last.row)
        /\ OtherRowsKept(B, pre.B, last.row)

C1_Witness ==
    /\ last.op = "assign" /\ last.rhs.kind = "dvec" /\ SameSize
    /\ A.rows = 2 /\ A.columns = 3 /\ last.row = 1
    /\ \A j \in ColsOf(A) : Get(pre.A, 1, j) # Get(A, 1, j)

\* C2: row(M,i) = e with an element-wise expression e that reads rows of M
\* leaves row i equal to e evaluated on the matrix as it was before the
\* assignment.
C2_AliasedAssign ==
    (last.op = "assign" /\ VecCanAlias(last.rhs)) =>
        /\ RowIs(A, last.row, last.rhs, pre.A)
        /\ RowIs(B, last.row, last.rhs, pre.B)

\* C3: after row(M,i) = s with a sparse right-hand side s of the size of the
\* row, every column listed in s holds the listed value and every other
\* column holds zero, whether or not s can alias M, in both layouts.
C3_SparseAssign ==
    (last.op = "assign" /\ IsSparseVector(last.rhs) /\ SameSize) =>
        /\ RowIs(A, last.row, last.rhs, pre.A)
        /\ RowIs(B, last.row, last.rhs, pre.B)

\* C4: after row(M,i) *= s with a sparse right-hand side s of the size of
\* the row, column k holds r[k]*s[k] if s lists k and zero if it does not,
\* r the row before the call; in both layouts, whether or not s can alias M.
C4_SparseMult ==
    (last.op = "mult" /\ IsSparseVector(last.rhs) /\ SameSize) =>
        \A k \in ColsOf(pre.A) :
            /\ Get(A, last.row, k) =
                  (IF k \in Indices(last.rhs)
                   THEN Get(pre.A, last.row, k) * ValueAt(last.rhs, pre.A, k) ELSE 0)
            /\ Get(B, last.row, k) =
                  (IF k \in Indices(last.rhs)
                   THEN Get(pre.B, last.row, k) * ValueAt(last.rhs, pre.B, k) ELSE 0)

C4_Witness ==
    /\ last.op = "mult" /\ IsSparseVector(last.rhs) /\ SameSize
    /\ A.columns = 3 /\ Indices(last.rhs) = {1}
    /\ Get(pre.A, last.row, 0) # 0 /\ Get(pre.A, last.row, 2) # 0
    /\ Get(A, last.row, 1) # 0 /\ Get(A, last.row, 1) # Get(pre.A, last.row, 1)

\* C5: =, +=, -= and *= with a right-hand side whose size differs from the
\* size of the view throw the size-mismatch error and leave every element of
\* the matrix as it was.
C5_SizeMismatch ==
    (Assigning /\ ~SameSize) =>
        /\ last.errA = "size_mismatch" /\ last.errB = "size_mismatch"
        /\ A = pre.A /\ B = pre.B

C5_Witness ==
    /\ last.op = "assign" /\ last.rhs.kind = "svec" /\ ~SameSize
    /\ last.errA = "size_mismatch"
    /\ \E j \in ColsOf(A) : Get(A, last.row, j) # 0

\* C6: constructing a view of row n throws the out-of-range error iff
\* n >= M.rows() and succeeds iff n < M.rows(); the matrix is unchanged.
C6_Construction ==
    (last.op = "row") =>
        /\ (last.errA = "out_of_range") = (last.row >= pre.A.rows)
        /\ (last.errA = "none") = (last.row < pre.A.rows)
        /\ (last.errB = "out_of_range") = (last.row >= pre.B.rows)
        /\ (last.errB = "none") = (last.row < pre.B.rows)
        /\ A = pre.A /\ B = pre.B

C6_Witness ==
    /\ last.op = "row" /\ A.rows > 0 /\ last.row = A.rows
    /\ last.errA = "out_of_range" /\ last.errB = "out_of_range"

\* C7: the size of a view is the number of columns of its matrix, before and
\* after every statement, in both layouts.
C7_Size ==
    /\ R_size(A) = A.columns /\ R_size(A) = pre.A.columns
    /\ C_size(B) = B.columns /\ C_size(B) = pre.B.columns

C7_Witness ==
    /\ pc = "done" /\ last.op = "assign" /\ last.errA = "none"
    /\ A.rows = 2 /\ A.columns = 3 /\ R_size(A) = 3 /\ A # pre.A

\* C8: a view holds no elements of its own: after view[j] = x the matrix
\* element M(i,j) is x and a view of row i reads x at j; after a direct write
\* M(i,j) = y a view of row i reads y at j.
C8_ZeroCopy ==
    /\ (last.op = "subscript") =>
          /\ Get(A, last.row, last.col) = last.val
          /\ R_subscript(A, last.row, last.col) = last.val
          /\ Get(B, last.row, last.col) = last.val
          /\ C_subscript(B, last.row, last.col) = last.val
    /\ (last.op = "matrix") =>
          /\ R_subscript(A, last.row, last.col) = last.val
          /\ C_subscript(B, last.row, last.col) = last.val

C8_Witness ==
    /\ last.op = "subscript" /\ last.row = 1 /\ last.col = 2
    /\ Get(pre.A, 1, 2) # last.val /\ R_subscript(A, 1, 2) = last.val

\* b is stored in column-major order and holds the values of the row-major a
Twin(a, b) ==
    /\ a.so /\ ~b.so /\ a.rows = b.rows /\ a.columns = b.columns
    /\ \A r \in RowsOf(a) : \A c \in ColsOf(a) :
          b.v[c * b.rows + r] = a.v[r * a.columns + c]

\* C9: when a row-major and a column-major matrix hold the same logical
\* values, the contiguous and the strided view read the same value at every
\* column of every row.
C9_LayoutReads ==
    Twin(A, B) =>
        \A i \in RowsOf(A) : \A j \in ColsOf(A) :
            R_subscript(A, i, j) = C_subscript(B, i, j)

C9_Witness ==
    /\ pc = "done" /\ Twin(A, B) /\ A.rows = 2 /\ A.columns = 3
    /\ A.v # B.v /\ A # pre.A

\* C10: reset sets every element of the row to zero, and a second reset
\* leaves the state the first one produced, in both layouts.
C10_Reset ==
    (last.op = "reset") =>
        /\ \A j \in ColsOf(A) : Get(A, last.row, j) = 0 /\ Get(B, last.row, j) = 0
        /\ R_reset(A, last.row) = A
        /\ C_reset(B, last.row) = B

C10_Witness ==
    /\ last.op = "reset" /\ A.columns = 3
    /\ \A j \in ColsOf(A) : Get(pre.A, last.row, j) # 0 /\ Get(pre.B, last.row, j) # 0

\* C11: after row(M,i) += e, -= e or *= e with an expression e that reads
\* rows of M, row(M,i)[j] is old[j] op e_old[j] for every column j, old the
\* row and e_old the value of e on the matrix before the statement.
C11_CompoundAliased ==
    (last.op \in {"add", "sub", "mult"} /\ VecCanAlias(last.rhs)) =>
        \A j \in ColsOf(pre.A) :
            /\ R_subscript(A, last.row, j) =
                  Combine(last.op, Get(pre.A, last.row, j), Denote(last.rhs, pre.A, j))
            /\ C_subscript(B, last.row, j) =
                  Combine(last.op, Get(pre.B, last.row, j), Denote(last.rhs, pre.B, j))

C11_Witness ==
    /\ last.op = "mult" /\ last.rhs.kind = "svecrow" /\ last.rhs.k = last.row
    /\ A.columns = 3 /\ Indices(last.rhs) = {0, 2}
    /\ Get(pre.A, last.row, 1) # 0 /\ Get(A, last.row, 1) = 0
    /\ Get(A, last.row, 2) # 0 /\ Get(A, last.row, 2) # Get(pre.A, last.row, 2)

\* C12: clear(row(M,i)) and reset(row(M,i)) leave the same matrix, from every
\* matrix, and neither changes the number of rows or of columns.
C12_ClearIsReset ==
    /\ \A i \in RowsOf(A) : clear(A, i) = reset(A, i) /\ clear(B, i) = reset(B, i)
    /\ (last.op = "clear") =>
          /\ A = reset(pre.A, last.row) /\ B = reset(pre.B, last.row)
          /\ A.rows = pre.A.rows /\ A.columns = pre.A.columns
          /\ B.rows = pre.B.rows /\ B.columns = pre.B.columns
    /\ (last.op = "reset") =>
          /\ A = clear(pre.A, last.row) /\ B = clear(pre.B, last.row)
          /\ A.rows = pre.A.rows /\ A.columns = pre.A.columns
          /\ B.rows = pre.B.rows /\ B.columns = pre.B.columns

C12_Witness ==
    /\ last.op = "clear" /\ A.rows = 2 /\ A.columns = 3 /\ last.row = 0
    /\ A # pre.A /\ B # pre.B /\ A = reset(pre.A, 0)
    /\ \E j \in ColsOf(A) : Get(A, 1, j) # 0

\* the elements of row i of m are all zero
AllZero(m, i) == \A j \in ColsOf(m) : Get(m, i, j) = 0

\* C13: isDefault(view) is true iff every element of the view is zero; it is
\* true for a view of size 0 and it is true right after reset(view).
C13_IsDefault ==
    /\ \A i \in RowsOf(A) :
          /\ isDefault(A, i) = AllZero(A, i)
          /\ isDefault(B, i) = AllZero(B, i)
          /\ (A.columns = 0) => isDefault(A, i) /\ isDefault(B, i)
    /\ (last.op = "isDefault") =>
          /\ last.val.a = AllZero(pre.A, last.row)
          /\ last.val.b = AllZero(pre.B, last.row)
    /\ (last.op = "reset") => isDefault(A, last.row) /\ isDefault(B, last.row)

C13_Witness ==
    /\ last.op = "reset" /\ A.columns = 3
    /\ ~isDefault(pre.A, last.row) /\ isDefault(A, last.row)
    /\ ~isDefault(pre.B, last.row) /\ isDefault(B, last.row)

\* C14: after view.scale(s) every element of the row is its old value times
\* s, multiplied once, and every other row is as before, in both layouts.
C14_Scale ==
    (last.op = "scale") =>
        /\ \A j \in ColsOf(pre.A) :
              /\ R_subscript(A, last.row, j) = Get(pre.A, last.row, j) * last.val
              /\ C_subscript(B, last.row, j) = Get(pre.B, last.row, j) * last.val
        /\ OtherRowsKept(A, pre.A, last.row)
        /\ OtherRowsKept(B, pre.B, last.row)

C14_Witness ==
    /\ last.op = "scale" /\ last.val = 2 /\ A.rows = 2 /\ A.columns = 3
    /\ \A j \in ColsOf(A) :
          Get(pre.A, last.row, j) # 0 /\ Get(A, last.row, j) = 2 * Get(pre.A, last.row, j)

\* C15: canAlias(p) and isAliased(p) of a view agree for every address p and
\* are true iff p is the address of the matrix of the view, whatever the row;
\* a different matrix holding the same values is not reported.
C15_AliasByIdentity ==
    /\ (last.op = "canAlias") =>
          /\ last.val.ca = last.val.ia
          /\ last.val.cb = last.val.ib
          /\ last.val.ca = (last.rhs.addr = AddressA)
          /\ last.val.cb = (last.rhs.addr = AddressB)
    /\ Twin(A, B) =>
          /\ ~R_canAlias(AddressA, AddressB) /\ ~R_isAliased(AddressA, AddressB)
          /\ ~C_canAlias(AddressB, AddressA) /\ ~C_isAliased(AddressB, AddressA)

C15_Witness ==
    /\ last.op = "canAlias" /\ last.rhs.addr = AddressA /\ last.row = 1
    /\ last.val.ca /\ last.val.ia /\ ~last.val.cb /\ Twin(A, B) /\ A.columns = 3

\* C16: nonZeros() of the strided view is the number of columns whose
\* element is not zero; it never exceeds size(), and it is 0 after reset().
C16_NonZeros ==
    /\ \A i \in RowsOf(B) :
          /\ C_nonZeros(B, i) = Cardinality({j \in ColsOf(B) : C_subscript(B, i, j) # 0})
          /\ C_nonZeros(B, i) <= C_size(B)
    /\ (last.op = "nonZeros") =>
          last.val.b = Cardinality({j \in ColsOf(pre.B) : Get(pre.B, last.row, j) # 0})
    /\ (last.op = "reset") => C_nonZeros(B, last.row) = 0

C16_Witness ==
    /\ last.op = "assign" /\ last.rhs.kind = "svec" /\ last.errB = "none"
    /\ B.columns = 3 /\ C_nonZeros(B, last.row) = 2 /\ C_subscript(B, last.row, 1) = 0
    /\ C_nonZeros(pre.B, last.row) = 3

\* C19: when the row-major and the column-major matrix hold the same logical
\* values, the same statement (=, +=, -=, *= with a dense or sparse right-hand
\* side, aliasing or not; reset; scale; scalar *=) executed through the
\* contiguous and through the strided view leaves them holding the same
\* logical values, and throws through both or through neither.
C19_LayoutMutation ==
    Twin(pre.A, pre.B) =>
        /\ Twin(A, B)
        /\ Logical(A) = Logical(B)
        /\ last.errA = last.errB

\* the columns 0..size()-1 of row i hold the same values in m1 and m2
SameRow(m1, m2, i) == \A j \in ColsOf(m1) : Get(m1, i, j) = Get(m2, i, j)

\* C20: for every dense source of the size of the row and each of assign,
\* add-, sub- and mult-assign, the scalar kernel, the blocked SIMD kernel and
\* (for assign) the streaming kernel leave the same values in the columns
\* 0..size()-1 of the row, for every size; the streaming loop is taken only
\* for columns > cacheSize/(sizeof(element)*3) and a source that is not
\* aliased.
C20_KernelPaths ==
    (pc = "done") =>
        /\ SameRow(A, B, last.row)
        /\ SameRow(VectorKernel(pre.A, last.row, last.rhs, last.op),
                   DenseKernel(pre.A, last.row, last.rhs, last.op), last.row)
        /\ \A j \in ColsOf(pre.A) :
              Get(A, last.row, j) =
                  Combine(last.op, Get(pre.A, last.row, j), Denote(last.rhs, pre.A, j))
        /\ (last.op = "assign") =>
              /\ SameRow(StreamLoop(pre.A, last.row, last.rhs, 0), B, last.row)
              /\ R_assign_streams(pre.A, last.rhs) =
                    (/\ pre.A.columns > CacheSize \div (SizeofElement * 3)
                     /\ last.rhs.kind = "pvec")
              /\ A = (IF pre.A.columns > CacheSize \div (SizeofElement * 3)
                         /\ last.rhs.kind = "pvec"
                      THEN StreamLoop(pre.A, last.row, last.rhs, 0)
                      ELSE VectorKernel(pre.A, last.row, last.rhs, "assign"))

C20_Witness ==
    /\ pc = "done" /\ last.op = "assign" /\ last.rhs.kind = "rowscale"
    /\ A.columns = 9 /\ A.rows = 2 /\ last.row = 1 /\ last.rhs.k = 0
    /\ ~R_assign_streams(pre.A, last.rhs)
    /\ \A j \in ColsOf(A) : Get(A, 1, j) # Get(pre.A, 1, j)
    /\ SameRow(A, B, 1)

\* what the operator op of the row-major view leaves of m
OpResult(op, m, row, rhs) ==
    CASE op = "assign" -> R_opAssign(m, row, rhs)
      [] op = "add"    -> R_opAddAssign(m, row, rhs)
      [] op = "sub"    -> R_opSubAssign(m, row, rhs)
      [] op = "mult"   -> R_opMultAssign(m, row, rhs)

\* C18: in =, +=, -= and *=, when the right-hand side can alias the matrix
\* (and in *= when it is sparse), every element of the right-hand side is
\* read into a temporary before the first write to the matrix: no write
\* happens before the temporary is complete, the temporary holds the
\* right-hand side as it is on the matrix before the call, and the kernel
\* reads the temporary.
C18_MaterializeFirst ==
    (/\ VecCanAlias(th.rhs) \/ (th.op = "mult" /\ IsSparseVector(th.rhs))
     /\ VecSize(th.rhs, pre.A) = pre.A.columns) =>
        /\ (th.writes > 0) => th.copied
        /\ (~th.copied) => A = pre.A /\ th.phase \in {"check", "eval"}
        /\ th.copied =>
              /\ th.src = ResultTypeOf(th.rhs, pre.A)
              /\ th.src.kind \in {"dvec", "svec", "pvec"}
              /\ th.reads = Cardinality(Positions(th.rhs, pre.A))
        /\ (th.phase = "done") =>
              A = OpResult(th.op, pre.A, th.row, th.rhs).m

C18_Witness ==
    /\ th.phase = "done" /\ th.op = "mult" /\ th.rhs.kind = "svecrow"
    /\ th.rhs.k = th.row /\ A.columns = 3 /\ Indices(th.rhs) = {0, 2}
    /\ th.copied /\ th.reads = 2 /\ th.writes = 3
    /\ Get(A, th.row, 2) # Get(pre.A, th.row, 2) /\ Get(A, th.row, 1) = 0

\* C17: two threads that add-assign to views of the same row without
\* synchronization race: when both have returned, a column where a thread
\* stored over a value written after its load holds the old value plus only
\* one of the two addends, which neither sequential order produces; every
\* other column holds the old value plus both addends.
C17_LostUpdate ==
    (\A t \in Threads : th[t].phase = "done") =>
        \A j \in ColsOf(A) :
            LET old == Get(pre.A, th[1].row, j)
                x1  == th[1].rhs.val[j]
                x2  == th[2].rhs.val[j]
                now == Get(A, th[1].row, j)
            IN  IF j \in th[1].lost \cup th[2].lost
                THEN now # old + x1 + x2 /\ now \in {old + x1, old + x2}
                ELSE now = old + x1 + x2

C17_Witness ==
    /\ \A t \in Threads : th[t].phase = "done"
    /\ A.columns = 3 /\ th[1].lost = {1} /\ th[2].lost = {2}
    /\ Get(A, th[1].row, 0) = Get(pre.A, th[1].row, 0) + th[1].rhs.val[0] + th[2].rhs.val[0]
    /\ Get(A, th[1].row, 1) = Get(pre.A, th[1].row, 1) + th[1].rhs.val[1]
    /\ Get(A, th[1].row, 2) = Get(pre.A, th[1].row, 2) + th[2].rhs.val[2]
    /\ A # R_opAddAssign(R_opAddAssign(pre.A, th[1].row, th[1].rhs).m,
                         th[1].row, th[2].rhs).m

\* C22: after row(M,i) += s (-= s) with a sparse right-hand side s of the
\* size of the row, every column k listed in s holds old[k] + s[k]
\* (old[k] - s[k]) and every column that is not listed is unchanged: the row
\* is not reset.  Both layouts.
C22_SparseScatter ==
    (last.op \in {"add", "sub"} /\ IsSparseVector(last.rhs) /\ SameSize) =>
        \A k \in ColsOf(pre.A) :
            /\ Get(A, last.row, k) =
                  (IF k \in Indices(last.rhs)
                   THEN Combine(last.op, Get(pre.A, last.row, k),
                                ValueAt(last.rhs, pre.A, k))
                   ELSE Get(pre.A, last.row, k))
            /\ Get(B, last.row, k) =
                  (IF k \in Indices(last.rhs)
                   THEN Combine(last.op, Get(pre.B, last.row, k),
                                ValueAt(last.rhs, pre.B, k))
                   ELSE Get(pre.B, last.row, k))

C22_Witness ==
    /\ last.op = "add" /\ last.rhs.kind = "svec" /\ SameSize
    /\ A.columns = 3 /\ Indices(last.rhs) = {1}
    /\ Get(A, last.row, 1) = Get(pre.A, last.row, 1) + last.rhs.val[1]
    /\ Get(A, last.row, 1) # Get(pre.A, last.row, 1)
    /\ Get(A, last.row, 0) # 0 /\ Get(A, last.row, 2) # 0

\* C30: from every matrix and for every scalar s, view.scale(s) and
\* view *= s leave the same matrix, in both layouts.
C30_ScaleIsMultScalar ==
    /\ \A i \in RowsOf(A) : \A s \in Values :
          /\ R_opMultScalar(A, i, s).err = "none"
          /\ R_opMultScalar(A, i, s).m = R_scale(A, i, s)
          /\ C_opMultScalar(B, i, s).err = "none"
          /\ C_opMultScalar(B, i, s).m = C_scale(B, i, s)
    /\ (last.op = "multscalar") =>
          /\ A = R_scale(pre.A, last.row, last.val)
          /\ B = C_scale(pre.B, last.row, last.val)
    /\ (last.op = "scale") =>
          /\ A = R_opMultScalar(pre.A, last.row, last.val).m
          /\ B = C_opMultScalar(pre.B, last.row, last.val).m

C30_Witness ==
    /\ last.op = "multscalar" /\ last.val = 2 /\ A.rows = 2 /\ A.columns = 3
    /\ last.errA = "none" /\ A # pre.A /\ A = R_scale(pre.A, last.row, 2)
    /\ \A j \in ColsOf(A) : Get(A, last.row, j) = 2 * Get(pre.A, last.row, j)

\* the statements that write through a view
Mutating ==
    last.op \in {"subscript", "fill", "copy", "assign", "add", "sub", "mult",
                 "multscalar", "divscalar", "reset", "clear", "scale"}

\* C27: a mutating operation on a view of row i (element write, homogeneous
\* and copy assignment, =, +=, -=, *= with dense or sparse right-hand side on
\* either branch, scalar *= and /=, reset, clear, scale) leaves every element
\* M(r,c) with r # i as it was, in both layouts.
C27_OtherRows ==
    Mutating =>
        /\ OtherRowsKept(A, pre.A, last.row)
        /\ OtherRowsKept(B, pre.B, last.row)
        /\ \A r \in RowsOf(pre.A) \ {last.row} : \A c \in ColsOf(pre.A) :
              /\ A.v[r * A.columns + c] = pre.A.v[r * A.columns + c]
              /\ B.v[c * B.rows + r] = pre.B.v[c * B.rows + r]

C27_Witness ==
    /\ last.op = "fill" /\ A.rows = 2 /\ A.columns = 3 /\ last.row = 1
    /\ \A j \in ColsOf(A) : Get(A, 1, j) = last.val /\ Get(pre.A, 1, j) # last.val
    /\ \A j \in ColsOf(A) : Get(A, 0, j) = Get(pre.A, 0, j) /\ Get(A, 0, j) # last.val
    /\ \A j \in ColsOf(B) : Get(B, 0, j) = Get(pre.B, 0, j)

\* C28: a = b for views a of row i and b of row k: with equal numbers of
\* columns row i becomes row k as it was before and nothing else changes;
\* when b is a itself or another view of the same row of the same matrix the
\* matrix is unchanged; with different numbers of columns the size-mismatch
\* error is thrown and nothing is written.
C28_CopyAssign ==
    (last.op = "copy") =>
        /\ OtherRowsKept(A, pre.A, last.row) /\ OtherRowsKept(B, pre.B, last.row)
        /\ (last.rhs.kind = "row") =>
              /\ last.errA = "none" /\ last.errB = "none"
              /\ \A j \in ColsOf(pre.A) :
                    /\ Get(A, last.row, j) = Get(pre.A, last.rhs.k, j)
                    /\ Get(B, last.row, j) = Get(pre.B, last.rhs.k, j)
              /\ (last.rhs.k = last.row) => A = pre.A /\ B = pre.B
        /\ (last.rhs.kind = "xrow" /\ last.rhs.size = pre.A.columns) =>
              /\ last.errA = "none" /\ last.errB = "none"
              /\ \A j \in ColsOf(pre.A) :
                    /\ Get(A, last.row, j) = last.rhs.val[j]
                    /\ Get(B, last.row, j) = last.rhs.val[j]
        /\ (last.rhs.kind = "xrow" /\ last.rhs.size # pre.A.columns) =>
              /\ last.errA = "size_mismatch" /\ last.errB = "size_mismatch"
              /\ A = pre.A /\ B = pre.B

C28_Witness ==
    /\ last.op = "copy" /\ last.rhs.kind = "row" /\ ~last.rhs.this
    /\ A.rows = 2 /\ A.columns = 3 /\ last.row = 0 /\ last.rhs.k = 1
    /\ \A j \in ColsOf(A) :
          Get(A, 0, j) = Get(pre.A, 1, j) /\ Get(A, 0, j) # Get(pre.A, 0, j)
    /\ \A j \in ColsOf(A) : Get(A, 1, j) = Get(pre.A, 1, j)

\* a view of row last.row was constructed for the last statement, err the
\* error the statement threw
Constructed(err) == pc = "done" /\ ~(last.op = "row" /\ err # "none")

\* C23: the row index of a view is the one given at construction and stays
\* below the number of rows of the matrix in every state a view operation
\* leads to; no view operation changes the number of rows or of columns.
C23_IndexInvariant ==
    /\ Constructed(last.errA) => last.row < A.rows /\ last.row < pre.A.rows
    /\ Constructed(last.errB) => last.row < B.rows /\ last.row < pre.B.rows
    /\ A.rows = pre.A.rows /\ A.columns = pre.A.columns
    /\ B.rows = pre.B.rows /\ B.columns = pre.B.columns
    /\ DOMAIN A.v = DOMAIN pre.A.v /\ DOMAIN B.v = DOMAIN pre.B.v

C23_Witness ==
    /\ Constructed(last.errA) /\ last.op = "mult" /\ last.errA = "none"
    /\ A.rows = 2 /\ last.row = 1 /\ A.columns = 3 /\ A # pre.A /\ B # pre.B


\* what holds of the loop over the view of row th.it.row of B in every state
IteratorState ==
    LET b == C_begin(AddressB, th.it.row)
        e == C_end(AddressB, th.it.row)
    IN  /\ th.n <= C_size(B) /\ Len(th.seen) = th.n
        /\ RowIterator_eq(th.it, e) <=> th.n = C_size(B)
        /\ RowIterator_ne(th.it, e) <=> th.n < C_size(B)
        /\ (th.phase = "done") => th.n = C_size(B)
        /\ \A k \in 0 .. th.n - 1 : th.seen[k + 1] = Get(B, th.it.row, k)
        /\ RowIterator_minus(e, b) = C_size(B)
        /\ RowIterator_minus(th.it, b) = th.n
        /\ RowIterator_eq(th.it, th.other) <=>
              /\ th.it.matrix = th.other.matrix
              /\ th.it.row = th.other.row
              /\ th.it.column = th.other.column
        /\ RowIterator_ne(th.it, th.other) <=> ~RowIterator_eq(th.it, th.other)

\* C24: an iterator of a column-major view started at begin() equals end()
\* after exactly size() increments and not before, and the loop
\* for( it=begin(); it!=end(); ++it ) terminates; the k-th dereference is the
\* element (row,k) of the matrix; end() - begin() is size(); two iterators
\* are equal iff they have the same matrix object, row and column index.
C24_IteratorTraversal == []IteratorState /\ <>(th.phase = "done")

C24_Witness ==
    /\ th.phase = "done" /\ th.n = 3 /\ Len(th.seen) = 3 /\ B.rows = 2
    /\ th.it.row = 1 /\ th.seen[1] # th.seen[2]
    /\ th.other.matrix = AddressA /\ th.other.row = 1 /\ th.other.column = 3
    /\ ~RowIterator_eq(th.it, th.other)


\* C25: for every number of columns and every power of two w the two sides
\* of the assertion of the vectorized kernels are equal, and jend is a
\* multiple of w*4 that is at most columns and less than w*4 below it.
C25_BlockEnd ==
    /\ (th.phase # "assert") => th.lhs = th.rhs
    /\ (th.phase = "done") =>
          /\ th.jend = th.lhs
          /\ th.jend % (th.w * 4) = 0
          /\ th.jend <= th.columns
          /\ th.columns - th.jend < th.w * 4

C25_Witness ==
    /\ th.phase = "done" /\ th.w = 8 /\ th.columns = SizeTMax - 1
    /\ th.jend = SizeTMax - 31 /\ th.lhs = th.jend


\* The positions a kernel touches are found by running it on a marked copy
\* of the matrix: every element of the copy, the padding included, is 1 and
\* every element of the source is 2, so that each store of the kernel leaves
\* a value other than 1 in every element it covers.
Marked(m) == [m EXCEPT !.v = [a \in DOMAIN m.v |-> 1]]

\* the source of the kind of rhs for the marked copy of m
MarkSource(rhs, m) ==
    CASE rhs.kind = "pvec"     -> PVec(Padded(m.columns), [j \in 0 .. Padded(m.columns) - 1 |-> 2])
      [] rhs.kind = "rowscale" -> RowScale(rhs.k, 2)
      [] rhs.kind = "rowsum"   -> rhs

\* the kernel the view selects for op and rhs
KernelOf(op, m, row, rhs) ==
    CASE op = "assign" -> R_assign(m, row, rhs)
      [] op = "add"    -> R_addAssign(m, row, rhs)
      [] op = "sub"    -> R_subAssign(m, row, rhs)
      [] op = "mult"   -> R_multAssign(m, row, rhs)

\* the addresses of m covered by the loads and stores of the kernel (every
\* load of the matrix is at the address of the store of the same statement)
TouchedBy(op, m, row, rhs) ==
    {a \in DOMAIN m.v : KernelOf(op, Marked(m), row, MarkSource(rhs, m)).v[a] # 1}

C21_ScalarKernelOrder ==
    (th.loop = "dense") =>
        LET n == VecSize(th.rhs, pre.A)
        IN  /\ th.phase # "breach"
            /\ th.jend = n - (n % 2) /\ th.jend = BitAnd(n, SizeTNeg(2))
            /\ th.jend <= n /\ n - th.jend <= 1
            /\ Len(th.trace) <= n
            /\ \A k \in 1 .. Len(th.trace) : th.trace[k] = k - 1
            /\ (th.phase = "pairs") =>
                  /\ Len(th.trace) = th.j /\ th.j % 2 = 0 /\ th.j <= th.jend
            /\ (th.phase = "done") =>
                  /\ Len(th.trace) = n /\ Len(th.trace) - th.jend <= 1
                  /\ A = DenseKernel(pre.A, th.row, th.rhs, th.op)
                  /\ B = DenseKernel(pre.B, th.row, th.rhs, th.op)

C21_Witness ==
    /\ th.loop = "dense" /\ th.phase = "done" /\ th.op = "sub"
    /\ B.rows = 2 /\ th.row = 1 /\ B.columns = 3
    /\ th.jend = 2 /\ th.trace = <<0, 1, 2>>
    /\ A # pre.A /\ B # pre.B

\* what the loop th.loop leaves when the view executes it at once
LoopResult ==
    CASE th.loop = "dense" ->
            /\ A = DenseKernel(pre.A, th.row, th.rhs, th.op)
            /\ B = DenseKernel(pre.B, th.row, th.rhs, th.op)
      [] th.loop = "sparse" ->
            /\ A = KernelOf(th.op, pre.A, th.row, th.rhs)
            /\ B = (CASE th.op = "assign" -> C_assign(pre.B, th.row, th.rhs)
                      [] th.op = "add"    -> C_addAssign(pre.B, th.row, th.rhs)
                      [] th.op = "sub"    -> C_subAssign(pre.B, th.row, th.rhs)
                      [] th.op = "mult"   -> C_multAssign(pre.B, th.row, th.rhs))
      [] th.loop = "reset"     -> A = pre.A /\ B = C_reset(pre.B, th.row)
      [] th.loop = "scale"     -> /\ A = R_scale(pre.A, th.row, th.x)
                                  /\ B = C_scale(pre.B, th.row, th.x)
      [] th.loop = "fill"      -> /\ A = R_opAssignScalar(pre.A, th.row, th.x)
                                  /\ B = C_opAssignScalar(pre.B, th.row, th.x)
      [] th.loop = "copy"      -> /\ A = R_opCopyAssign(pre.A, th.row, th.rhs).m
                                  /\ B = C_opCopyAssign(pre.B, th.row, th.rhs).m
      [] th.loop = "nonZeros"  -> /\ A = pre.A /\ B = pre.B
                                  /\ th.val = C_nonZeros(pre.B, th.row)
      [] th.loop = "isDefault" -> /\ A = pre.A /\ B = pre.B
                                  /\ (th.val = 1) = isDefault(pre.A, th.row)
                                  /\ (th.val = 1) = isDefault(pre.B, th.row)
      [] th.loop = "isnan"     -> A = pre.A /\ B = pre.B /\ th.val = 0

\* C29: for a source of the size of the row, the listed indices of a sparse
\* source below size(), every index of an element access of the scalar
\* kernels, the sparse kernels (tmp[index] of the sparse multiplication
\* included), reset, scale, nonZeros, isnan, isDefault, the homogeneous and
\* the copy assignment is below size(): the assertion index < size() of
\* operator[] never fails.
C29_AccessPrecondition ==
    /\ th.phase # "breach"
    /\ \A k \in 1 .. Len(th.trace) :
          th.trace[k] < R_size(A) /\ th.trace[k] < C_size(B)
    /\ (th.phase = "done") => LoopResult

C29_Witness ==
    /\ th.loop = "sparse" /\ th.op = "mult" /\ th.phase = "done"
    /\ A.columns = 3 /\ th.rhs.idx = {0, 2} /\ th.trace = <<0, 0, 2, 2>>
    /\ Get(pre.A, th.row, 1) # 0 /\ Get(A, th.row, 1) = 0 /\ Get(A, th.row, 2) # 0

=============================================================================
